---- MODULE Spec2Model ----
(***************************************************************************)
(* A model of the Artifact ("art") version control core:                   *)
(* workflow (status / add / commit), changes (diff), branching (branch /   *)
(* checkout / merge), caches (stash / reset / rm) and the state            *)
(* reconstructor getStateByHash.                                           *)
(*                                                                         *)
(* File contents are sequences of one-character strings.  A mapping from   *)
(* paths to contents (the working tree, a reconstructed state) is a        *)
(* function whose domain is the set of files present.  A change set (the   *)
(* stage, a commit part) is a JavaScript object whose key order matters to *)
(* the paginated writers, so it is a sequence of [path, change] records.   *)
(***************************************************************************)
EXTENDS Integers, Sequences, FiniteSets, TLC

\* Bounds of the model: the longest string given to the delta engine, and
\* the number of changes the repository is followed through.
MaxStr == 3
MaxSteps == 5

\* src/utils/constants.js
MAX_PART_SIZE == 32000000

Chars == {"a", "x"}
Paths == {"a.txt", ".artignore"}
BranchNames == {"main", "dev"}
Messages == {"", "m"}

\* head.active.parent === null
NoHash == 0

RECURSIVE StringsOfLen(_)
StringsOfLen(n) ==
  IF n = 0 THEN {<<>>}
  ELSE {Append(s, c) : s \in StringsOfLen(n - 1), c \in Chars}

StringsUpTo(n) == UNION {StringsOfLen(k) : k \in 0..n}

\* The contents the user writes into files of the working tree.
Contents == {<<>>, <<"a">>, <<"x", "a">>}

Min(a, b) == IF a < b THEN a ELSE b

EmptyMap == [p \in {} |-> <<>>]

\* The directories init is run on: any set of the files, each holding
\* InitContent.
InitContent == <<"a">>

InitTrees == {[p \in D |-> InitContent] : D \in SUBSET Paths}

(***************************************************************************)
(* String primitives.                                                      *)
(***************************************************************************)

\* String.prototype.slice(from, to) for 0 <= from, 0 <= to.
Slice(s, from, to) == SubSeq(s, from + 1, Min(to, Len(s)))

\* String.prototype.slice(from).
SliceFrom(s, from) == SubSeq(s, from + 1, Len(s))

(***************************************************************************)
(* The delta engine, as written inline in add.                             *)
(***************************************************************************)

RECURSIVE PrefixScan(_, _, _)
PrefixScan(previous, current, start) ==
  IF start < Len(previous) /\ start < Len(current)
     /\ previous[start + 1] = current[start + 1]
  THEN PrefixScan(previous, current, start + 1)
  ELSE start

RECURSIVE SuffixScan(_, _, _, _, _)
SuffixScan(previous, current, start, oldEnd, newEnd) ==
  IF oldEnd >= start /\ newEnd >= start
     /\ previous[oldEnd + 1] = current[newEnd + 1]
  THEN SuffixScan(previous, current, start, oldEnd - 1, newEnd - 1)
  ELSE <<oldEnd, newEnd>>

DeleteOp(start, length, text) ==
  [type |-> "delete", position |-> start, length |-> length, content |-> text]

InsertOp(start, text) ==
  [type |-> "insert", position |-> start, content |-> text]

\* The delta engine with the deletion one character short.
DeltaOpsShortDelete(previous, current) ==
  LET start == PrefixScan(previous, current, 0)
      ends == SuffixScan(previous, current, start,
                         Len(previous) - 1, Len(current) - 1)
      oldEnd == ends[1]
      newEnd == ends[2]
      deletionLength == oldEnd - start
      insertionContent == Slice(current, start, newEnd + 1)
      deletes == IF deletionLength > 0
                 THEN <<DeleteOp(start, deletionLength,
                                 Slice(previous, start, oldEnd))>>
                 ELSE <<>>
      inserts == IF Len(insertionContent) > 0
                 THEN <<InsertOp(start, insertionContent)>>
                 ELSE <<>>
  IN deletes \o inserts

DeltaOps(previous, current) ==
  LET start == PrefixScan(previous, current, 0)
      ends == SuffixScan(previous, current, start,
                         Len(previous) - 1, Len(current) - 1)
      oldEnd == ends[1]
      newEnd == ends[2]
      deletionLength == oldEnd - start + 1
      insertionContent == Slice(current, start, newEnd + 1)
      deletes == IF deletionLength > 0
                 THEN <<DeleteOp(start, deletionLength,
                                 Slice(previous, start, oldEnd + 1))>>
                 ELSE <<>>
      inserts == IF Len(insertionContent) > 0
                 THEN <<InsertOp(start, insertionContent)>>
                 ELSE <<>>
  IN deletes \o inserts

(***************************************************************************)
(* Replay of an op list (getStateByHash, inner loop).                      *)
(***************************************************************************)

\* The replay with an insert that appends instead of inserting at position.
ApplyOpAppend(content, operation) ==
  IF operation.type = "insert"
  THEN content \o operation.content
  ELSE IF operation.type = "delete"
  THEN Slice(content, 0, operation.position)
       \o SliceFrom(content, operation.position + operation.length)
  ELSE content

ApplyOp(content, operation) ==
  IF operation.type = "insert"
  THEN Slice(content, 0, operation.position) \o operation.content
       \o SliceFrom(content, operation.position)
  ELSE IF operation.type = "delete"
  THEN Slice(content, 0, operation.position)
       \o SliceFrom(content, operation.position + operation.length)
  ELSE content

RECURSIVE ApplyOps(_, _)
ApplyOps(content, operations) ==
  IF operations = <<>> THEN content
  ELSE ApplyOps(ApplyOp(content, Head(operations)), Tail(operations))

(***************************************************************************)
(* Change entries and change sets.                                         *)
(***************************************************************************)

CreateFile(content) == [type |-> "createFile", content |-> content]

DeleteFile == [type |-> "deleteFile"]

\* A change entry that is a JavaScript array of operations.
OpList(operations) == [type |-> "ops", ops |-> operations]

Entry(p, change) == [path |-> p, change |-> change]

\* Object.keys(changes)
Keys(changes) == {changes[i].path : i \in 1..Len(changes)}

\* changes[p]
Lookup(changes, p) ==
  changes[CHOOSE i \in 1..Len(changes) : changes[i].path = p].change

\* changes[p] = change: an existing key keeps its position, a new key goes last.
Assign(changes, p, change) ==
  IF p \in Keys(changes)
  THEN [i \in 1..Len(changes) |->
          IF changes[i].path = p THEN Entry(p, change) ELSE changes[i]]
  ELSE Append(changes, Entry(p, change))

\* Object.assign(target, source)
RECURSIVE ObjectAssign(_, _)
ObjectAssign(target, source) ==
  IF source = <<>> THEN target
  ELSE ObjectAssign(Assign(target, Head(source).path, Head(source).change),
                    Tail(source))

(***************************************************************************)
(* JSON.stringify(change).length                                           *)
(***************************************************************************)

MarkerActive == "<<<<<<< active\n"
MarkerMiddle == "\n=======\n"
MarkerTarget == "\n>>>>>>> "

\* Length of one element of a content sequence once JSON-escaped.
TokenLen(t) ==
  CASE t = MarkerActive -> 16
    [] t = MarkerMiddle -> 11
    [] t = MarkerTarget -> 10
    [] t = "main" -> 4
    [] t = "dev" -> 3
    [] OTHER -> 1

RECURSIVE JSONStrLen(_)
JSONStrLen(s) == IF s = <<>> THEN 0 ELSE TokenLen(Head(s)) + JSONStrLen(Tail(s))

Digits(n) == IF n < 10 THEN 1 ELSE IF n < 100 THEN 2 ELSE 3

OpSize(operation) ==
  IF operation.type = "delete" /\ "content" \notin DOMAIN operation
  THEN 38 + Digits(operation.position) + Digits(operation.length)
  ELSE IF operation.type = "delete"
  THEN 52 + Digits(operation.position) + Digits(operation.length)
       + JSONStrLen(operation.content)
  ELSE 42 + Digits(operation.position) + JSONStrLen(operation.content)

RECURSIVE OpsSize(_)
OpsSize(operations) ==
  IF operations = <<>> THEN 0
  ELSE OpSize(Head(operations)) + OpsSize(Tail(operations))

JSONSize(change) ==
  CASE change.type = "createFile" -> 34 + JSONStrLen(change.content)
    [] change.type = "deleteFile" -> 21
    [] change.type = "ops" ->
         2 + OpsSize(change.ops)
         + (IF Len(change.ops) > 1 THEN Len(change.ops) - 1 ELSE 0)

(***************************************************************************)
(* The paginated writers' loop: a new part is opened when the next change  *)
(* would exceed MAX_PART_SIZE and the current part is not empty.  The      *)
(* result is <<parts flushed so far, the part still open>>.                *)
(***************************************************************************)

\* The loop that loses the open part when it opens the next one.
RECURSIVE PartitionLoopDropAt(_, _, _, _, _)
PartitionLoopDropAt(limit, changes, parts, currentPartChanges, currentSize) ==
  IF changes = <<>> THEN <<parts, currentPartChanges>>
  ELSE LET e == Head(changes)
           size == JSONSize(e.change)
           flush == currentSize + size > limit
                    /\ currentPartChanges # <<>>
       IN PartitionLoopDropAt(limit, Tail(changes),
                              IF flush THEN Append(parts, <<>>) ELSE parts,
                              Append(IF flush THEN <<>> ELSE currentPartChanges, e),
                              (IF flush THEN 0 ELSE currentSize) + size)

RECURSIVE PartitionLoopAt(_, _, _, _, _)
PartitionLoopAt(limit, changes, parts, currentPartChanges, currentSize) ==
  IF changes = <<>> THEN <<parts, currentPartChanges>>
  ELSE LET e == Head(changes)
           size == JSONSize(e.change)
           flush == currentSize + size > limit
                    /\ currentPartChanges # <<>>
       IN PartitionLoopAt(limit, Tail(changes),
                          IF flush THEN Append(parts, currentPartChanges) ELSE parts,
                          Append(IF flush THEN <<>> ELSE currentPartChanges, e),
                          (IF flush THEN 0 ELSE currentSize) + size)

PartitionLoop(changes, parts, currentPartChanges, currentSize) ==
  PartitionLoopAt(MAX_PART_SIZE, changes, parts, currentPartChanges, currentSize)

\* add's writer: its savePart has no emptiness test, so the last part is
\* always written, also when it holds no change.
StagePartsAt(limit, changes) ==
  LET r == PartitionLoopAt(limit, changes, <<>>, <<>>, 0)
  IN Append(r[1], r[2])

StageParts(changes) == StagePartsAt(MAX_PART_SIZE, changes)

\* savePaginatedChanges' savePart returns without writing when the open
\* part is empty.
savePaginatedChangesAt(limit, changes) ==
  LET r == PartitionLoopAt(limit, changes, <<>>, <<>>, 0)
  IN IF r[2] = <<>> THEN r[1] ELSE Append(r[1], r[2])

savePaginatedChanges(changes) == savePaginatedChangesAt(MAX_PART_SIZE, changes)

\* commit's saveCommitPart and loop: the same test and the same emptiness
\* guard, the parts being named after the commit hash.
saveCommitPartsAt(limit, stagedChanges) ==
  LET r == PartitionLoopAt(limit, stagedChanges, <<>>, <<>>, 0)
  IN IF r[2] = <<>> THEN r[1] ELSE Append(r[1], r[2])

saveCommitParts(stagedChanges) == saveCommitPartsAt(MAX_PART_SIZE, stagedChanges)

\* merge's loop calls saveStagePart whenever the next change would exceed
\* the limit, without asking whether the open part holds anything;
\* saveStagePart itself returns at once, resetting nothing, on an empty part.
RECURSIVE MergePartitionLoopAt(_, _, _, _, _)
MergePartitionLoopAt(limit, changes, parts, currentPartChanges, currentPartSize) ==
  IF changes = <<>> THEN <<parts, currentPartChanges>>
  ELSE LET e == Head(changes)
           changeSize == JSONSize(e.change)
           called == currentPartSize + changeSize > limit
           saved == called /\ currentPartChanges # <<>>
       IN MergePartitionLoopAt(limit, Tail(changes),
                               IF saved THEN Append(parts, currentPartChanges) ELSE parts,
                               Append(IF saved THEN <<>> ELSE currentPartChanges, e),
                               (IF saved THEN 0 ELSE currentPartSize) + changeSize)

saveStagePartsAt(limit, changes) ==
  LET r == MergePartitionLoopAt(limit, changes, <<>>, <<>>, 0)
  IN IF r[2] = <<>> THEN r[1] ELSE Append(r[1], r[2])

saveStageParts(changes) == saveStagePartsAt(MAX_PART_SIZE, changes)

\* Merge of the parts a manifest names, in order.
RECURSIVE MergeParts(_, _)
MergeParts(allChanges, parts) ==
  IF parts = <<>> THEN allChanges
  ELSE MergeParts(ObjectAssign(allChanges, Head(parts)), Tail(parts))

\* A paginated directory (stage, stash entry): whether the directory exists
\* and the parts its manifest lists.
NoDirectory == [exists |-> FALSE, parts |-> <<>>]

Directory(parts) == [exists |-> TRUE, parts |-> parts]

getPaginatedChanges(directory) ==
  IF ~directory.exists THEN <<>> ELSE MergeParts(<<>>, directory.parts)

getStagedChanges(directory) == getPaginatedChanges(directory)

(***************************************************************************)
(* The ignore predicate.  A line of .artignore becomes the regular         *)
(* expression (^|/)line, so with paths that hold no slash a rule matches a *)
(* path exactly when the line is a prefix of it.                           *)
(***************************************************************************)

PathOrder == <<".artignore", "a.txt">>

PathChars(p) ==
  IF p = "a.txt" THEN <<"a", ".", "t", "x", "t">>
  ELSE <<".", "a", "r", "t", "i", "g", "n", "o", "r", "e">>

\* relativeEntry.startsWith('.art')
StartsWithArt(p) == Len(PathChars(p)) >= 4 /\ SubSeq(PathChars(p), 1, 4) = <<".", "a", "r", "t">>

\* The rules of getRules: one rule per non-empty line of .artignore.
getRules(files) ==
  IF ".artignore" \in DOMAIN files /\ files[".artignore"] # <<>>
  THEN {files[".artignore"]}
  ELSE {}

shouldIgnore(p, files) ==
  \E line \in getRules(files) :
    /\ Len(line) <= Len(PathChars(p))
    /\ SubSeq(PathChars(p), 1, Len(line)) = line

(***************************************************************************)
(* The state reconstructor.                                                *)
(***************************************************************************)

Remove(state, p) == [q \in DOMAIN state \ {p} |-> state[q]]

ApplyChange(state, p, changeSet) ==
  CASE changeSet.type = "ops" ->
         (p :> ApplyOps(IF p \in DOMAIN state THEN state[p] ELSE <<>>,
                        changeSet.ops)) @@ state
    [] changeSet.type = "createFile" -> (p :> changeSet.content) @@ state
    [] changeSet.type = "deleteFile" -> Remove(state, p)
    [] OTHER -> state

RECURSIVE ApplyChanges(_, _)
ApplyChanges(state, fullChanges) ==
  IF fullChanges = <<>> THEN state
  ELSE ApplyChanges(ApplyChange(state, Head(fullChanges).path,
                                Head(fullChanges).change),
                    Tail(fullChanges))

\* A branch history directory: manifest.json, the commit masters and the
\* part files, the latter named <<hash, index>>.
EmptyBranch == [commits |-> <<>>,
                masters |-> [h \in {} |-> <<>>],
                parts |-> [n \in {} |-> <<>>]]

\* The parts of a commit master that exist on disk, merged in order.
RECURSIVE CommitChanges(_, _, _)
CommitChanges(directory, partNames, fullChanges) ==
  IF partNames = <<>> THEN fullChanges
  ELSE CommitChanges(directory, Tail(partNames),
         IF Head(partNames) \in DOMAIN directory.parts
         THEN ObjectAssign(fullChanges, directory.parts[Head(partNames)])
         ELSE fullChanges)

\* The replay without its break at the target hash.
RECURSIVE ReplayToEnd(_, _, _, _)
ReplayToEnd(directory, commits, state, targetHash) ==
  IF commits = <<>> THEN state
  ELSE LET hash == Head(commits)
       IN IF hash \notin DOMAIN directory.masters
          THEN ReplayToEnd(directory, Tail(commits), state, targetHash)
          ELSE ReplayToEnd(directory, Tail(commits),
                           ApplyChanges(state,
                             CommitChanges(directory,
                                           directory.masters[hash].parts, <<>>)),
                           targetHash)

RECURSIVE Replay(_, _, _, _)
Replay(directory, commits, state, targetHash) ==
  IF commits = <<>> THEN state
  ELSE LET hash == Head(commits)
       IN IF hash \notin DOMAIN directory.masters
          THEN Replay(directory, Tail(commits), state, targetHash)
          ELSE LET next == ApplyChanges(state,
                             CommitChanges(directory,
                                           directory.masters[hash].parts, <<>>))
               IN IF hash = targetHash THEN next
                  ELSE Replay(directory, Tail(commits), next, targetHash)

getStateByHashFrom(rootState, history, branchName, targetHash) ==
  IF branchName \notin DOMAIN history THEN EmptyMap
  ELSE IF targetHash = NoHash THEN rootState
  ELSE Replay(history[branchName], history[branchName].commits,
              rootState, targetHash)

(***************************************************************************)
(* The repository.                                                         *)
(***************************************************************************)

VARIABLES
  tree,    \* the working tree outside .art: path -> content
  root,    \* .art/root: the snapshot taken by init, path -> content
  head,    \* art.json: active.branch and active.parent
  local,   \* .art/history/local: branch name -> branch history directory
  stage,   \* .art/stage
  clock,   \* number of commit hashes handed out so far
  steps,   \* number of calls and edits so far that changed something
  last,    \* the last call that changed something, with its outcome
  delta,   \* the delta engine on its own: inputs, ops and replayed result
  threeWay, \* the merge loop on its own: the three states, the tree, the result
  remote,  \* .art/history/remote: branch name -> commits of its manifest
  cache,   \* .art/cache: the stash directories, oldest first
  pc,      \* the call that is between two of its writes, and how far it is
  paged    \* the paginated store on its own: a mapping, its parts, the load

vars == <<tree, root, head, local, stage, clock, steps, last, delta, threeWay, remote, cache, pc,
          paged>>

getStateByHash(history, branchName, targetHash) ==
  getStateByHashFrom(root, history, branchName, targetHash)

\* The active state: the state replayed at head.active.parent.
ActiveState == getStateByHash(local, head.branch, head.parent)

\* !!state[p]: the entry exists and is not the empty string.
Truthy(state, p) == p \in DOMAIN state /\ state[p] # <<>>

Elements(seq) == {seq[i] : i \in 1..Len(seq)}

\* What a call leaves behind: its result ("ok" or the error it throws, or
\* the message it returns without doing anything) and the files it wrote.
Outcome(result, files, hd, history, stagedDirectory, clk) ==
  [result |-> result, tree |-> files, head |-> hd, local |-> history,
   stage |-> stagedDirectory, clock |-> clk, remote |-> remote, cache |-> cache,
   root |-> root]

\* A call that returns or throws before writing anything.
Untouched(result) == Outcome(result, tree, head, local, stage, clock)

Call(op, arg, hash, force, result) ==
  [op |-> op, arg |-> arg, hash |-> hash, force |-> force, result |-> result]

(***************************************************************************)
(* add                                                                     *)
(***************************************************************************)

\* The files add processes for a target: a path, or "." for the directory.
filesToProcess(target, activeState) ==
  IF target = "."
  THEN SelectSeq(PathOrder,
         LAMBDA p : /\ p \in DOMAIN tree
                    /\ ~StartsWithArt(p)
                    /\ (~shouldIgnore(p, tree) \/ Truthy(activeState, p)))
  ELSE <<target>>

\* The body of add's loop for one file.
StageFile(currentStaged, activeState, p) ==
  LET currentContent == tree[p]
  IN IF p \notin DOMAIN activeState
     THEN Assign(currentStaged, p, CreateFile(currentContent))
     ELSE IF currentContent # activeState[p]
             /\ DeltaOps(activeState[p], currentContent) # <<>>
     THEN Assign(currentStaged, p,
                 OpList(DeltaOps(activeState[p], currentContent)))
     ELSE currentStaged

RECURSIVE StageFiles(_, _, _)
StageFiles(currentStaged, activeState, files) ==
  IF files = <<>> THEN currentStaged
  ELSE StageFiles(StageFile(currentStaged, activeState, Head(files)),
                  activeState, Tail(files))

add(targetPath) ==
  LET activeState == ActiveState
      files == filesToProcess(targetPath, activeState)
  IN IF targetPath # "." /\ targetPath \notin DOMAIN tree
     THEN Untouched("path does not exist")
     ELSE IF targetPath # "." /\ shouldIgnore(targetPath, tree)
             /\ ~Truthy(activeState, targetPath)
     THEN Untouched("is being ignored")
     ELSE IF files = <<>>
     THEN Untouched("no changes to add")
     ELSE Outcome("ok", tree, head, local,
                  Directory(StageParts(
                    StageFiles(getStagedChanges(stage), activeState, files))),
                  clock)

(***************************************************************************)
(* status                                                                  *)
(***************************************************************************)

\* The three lists of status(), in the order of the directory listing.  No
\* path of the model is .art or lies under .art/, so none is skipped.
status ==
  LET stagedFiles == getStagedChanges(stage)
      activeState == ActiveState
      allFiles == SelectSeq(PathOrder, LAMBDA file : file \in DOMAIN tree)
      isStaged(file) == file \in Keys(stagedFiles)
      isActive(file) == Truthy(activeState, file)
      isIgnored(file) == shouldIgnore(file, tree)
      toIgnored(file) == isIgnored(file) /\ ~isActive(file) /\ ~isStaged(file)
  IN [activeBranch |-> head.branch,
      lastCommit |-> head.parent,
      staged |-> [i \in 1..Len(stagedFiles) |-> stagedFiles[i].path],
      ignored |-> SelectSeq(allFiles, toIgnored),
      untracked |-> SelectSeq(allFiles,
                      LAMBDA file : /\ ~toIgnored(file)
                                    /\ ~isStaged(file) /\ ~isActive(file)),
      modified |-> SelectSeq(allFiles,
                     LAMBDA file : /\ ~toIgnored(file)
                                   /\ ~isStaged(file) /\ isActive(file)
                                   /\ tree[file] # activeState[file])]

(***************************************************************************)
(* diff                                                                    *)
(***************************************************************************)

\* One entry of fileDiffs: the text between the common prefix and suffix.
FileDiff(filePath, previousContent, currentContent) ==
  LET start == PrefixScan(previousContent, currentContent, 0)
      ends == SuffixScan(previousContent, currentContent, start,
                         Len(previousContent) - 1, Len(currentContent) - 1)
  IN [file |-> filePath,
      deleted |-> Slice(previousContent, start, ends[1] + 1),
      added |-> Slice(currentContent, start, ends[2] + 1)]

\* diff() run on a repository given by its parts.
diffOf(files, hd, history, stagedDirectory) ==
  LET lastCommitState == IF hd.parent # NoHash
                         THEN getStateByHash(history, hd.branch, hd.parent)
                         ELSE [p \in {} |-> <<>>]
      previousContent(filePath) == IF Truthy(lastCommitState, filePath)
                                   THEN lastCommitState[filePath] ELSE <<>>
      currentFiles == SelectSeq(PathOrder,
                        LAMBDA file : file \in DOMAIN files /\ ~StartsWithArt(file))
      changed == SelectSeq(currentFiles,
                           LAMBDA file : files[file] # previousContent(file))
      stagedChanges == getStagedChanges(stagedDirectory)
  IN [fileDiffs |-> [i \in 1..Len(changed) |->
                       FileDiff(changed[i], previousContent(changed[i]),
                                files[changed[i]])],
      staged |-> [i \in 1..Len(stagedChanges) |-> stagedChanges[i].path]]

diff == diffOf(tree, head, local, stage)

(***************************************************************************)
(* rm                                                                      *)
(***************************************************************************)

\* rm that unlinks the file without staging its deletion.
rmUnstaged(filePath) ==
  Outcome("ok",
          IF filePath \in DOMAIN tree THEN Remove(tree, filePath) ELSE tree,
          head, local, stage, clock)

rm(filePath) ==
  Outcome("ok",
          IF filePath \in DOMAIN tree THEN Remove(tree, filePath) ELSE tree,
          head, local,
          Directory(savePaginatedChanges(
            Assign(getPaginatedChanges(stage), filePath, DeleteFile))),
          clock)

(***************************************************************************)
(* commit                                                                  *)
(***************************************************************************)

PartNames(hash, n) == [i \in 1..n |-> <<hash, i - 1>>]

\* commit writing the master and the manifest but none of the part files.
WriteCommitNoParts(directory, hash, message, parent, stagedChanges) ==
  LET commitParts == saveCommitParts(stagedChanges)
      names == PartNames(hash, Len(commitParts))
      commitMaster == [hash |-> hash, message |-> message,
                       parent |-> parent, parts |-> names]
  IN [commits |-> Append(directory.commits, hash),
      masters |-> (hash :> commitMaster) @@ directory.masters,
      parts |-> directory.parts]

\* commit writing a master that does not record the parent.
WriteCommitNoParent(directory, hash, message, parent, stagedChanges) ==
  LET commitParts == saveCommitParts(stagedChanges)
      names == PartNames(hash, Len(commitParts))
      commitMaster == [hash |-> hash, message |-> message,
                       parent |-> NoHash, parts |-> names]
  IN [commits |-> Append(directory.commits, hash),
      masters |-> (hash :> commitMaster) @@ directory.masters,
      parts |-> [n \in DOMAIN directory.parts \cup Elements(names) |->
                   IF n \in Elements(names)
                   THEN commitParts[CHOOSE i \in 1..Len(names) : names[i] = n]
                   ELSE directory.parts[n]]]

\* The branch directory after commit has written the parts, the master and
\* the manifest.
WriteCommit(directory, hash, message, parent, stagedChanges) ==
  LET commitParts == saveCommitParts(stagedChanges)
      names == PartNames(hash, Len(commitParts))
      commitMaster == [hash |-> hash, message |-> message,
                       parent |-> parent, parts |-> names]
  IN [commits |-> Append(directory.commits, hash),
      masters |-> (hash :> commitMaster) @@ directory.masters,
      parts |-> [n \in DOMAIN directory.parts \cup Elements(names) |->
                   IF n \in Elements(names)
                   THEN commitParts[CHOOSE i \in 1..Len(names) : names[i] = n]
                   ELSE directory.parts[n]]]

\* commit writing the commit into the directory of every local branch.
commitEveryBranch(message) ==
  LET commitHash == clock + 1
  IN IF message = "" THEN Untouched("a commit message is required")
     ELSE IF ~stage.exists THEN Untouched("nothing to commit")
     ELSE Outcome("ok", tree,
                  [head EXCEPT !.parent = commitHash],
                  [b \in DOMAIN local |->
                     WriteCommit(local[b], commitHash, message, head.parent,
                                 getStagedChanges(stage))],
                  NoDirectory, commitHash)

\* The hash is a digest of the changes, the time and the message; every
\* commit is taken at a later time, so it gets the next number.
\* commit run on a repository given by its parts.
commitFrom(files, hd, history, stagedDirectory, clk, message) ==
  LET commitHash == clk + 1
  IN IF message = ""
     THEN Outcome("a commit message is required",
                  files, hd, history, stagedDirectory, clk)
     ELSE IF ~stagedDirectory.exists
     THEN Outcome("nothing to commit", files, hd, history, stagedDirectory, clk)
     ELSE Outcome("ok", files,
                  [hd EXCEPT !.parent = commitHash],
                  [history EXCEPT ![hd.branch] =
                     WriteCommit(@, commitHash, message, hd.parent,
                                 getStagedChanges(stagedDirectory))],
                  NoDirectory, commitHash)

commit(message) == commitFrom(tree, head, local, stage, clock, message)

(***************************************************************************)
(* branch                                                                  *)
(***************************************************************************)

\* branch copying the manifest and the masters but none of the part files.
createBranchNoParts(history, hd, name) ==
  LET sourceBranchName == hd.branch
      source == history[sourceBranchName]
      initialCommits == IF sourceBranchName \in DOMAIN history
                        THEN source.commits ELSE <<>>
      copied == Elements(initialCommits) \cap DOMAIN source.masters
  IN (name :> [commits |-> initialCommits,
               masters |-> [h \in copied |-> source.masters[h]],
               parts |-> [n \in {} |-> <<>>]]) @@ history

\* branch({ name }) that starts the new branch with an empty manifest.
createBranchEmpty(history, hd, name) == (name :> EmptyBranch) @@ history

\* branch({ name }) for a name that does not exist yet: the manifest of the
\* active branch is copied, with every master and part that exists there.
createBranch(history, hd, name) ==
  LET sourceBranchName == hd.branch
      source == history[sourceBranchName]
      initialCommits == IF sourceBranchName \in DOMAIN history
                        THEN source.commits ELSE <<>>
      copied == Elements(initialCommits) \cap DOMAIN source.masters
      partNames == {n \in DOMAIN source.parts :
                      \E h \in copied : n \in Elements(source.masters[h].parts)}
  IN (name :> [commits |-> initialCommits,
               masters |-> [h \in copied |-> source.masters[h]],
               parts |-> [n \in partNames |-> source.parts[n]]]) @@ history

\* The remote tracking directory of a new branch, written when it is missing.
createRemote(mirror, history, hd, name) ==
  IF name \in DOMAIN mirror THEN mirror
  ELSE (name :> (IF hd.branch \in DOMAIN history
                 THEN history[hd.branch].commits ELSE <<>>)) @@ mirror

branch(name) ==
  IF name \in DOMAIN local THEN Untouched("already exists")
  ELSE [Outcome("ok", tree, head, createBranch(local, head, name), stage, clock)
          EXCEPT !.remote = createRemote(remote, local, head, name)]

\* branch({ name, isDelete: true }) without the test for the active branch.
branchDeleteInUse(name) ==
  IF name \notin DOMAIN local THEN Untouched("does not exist")
  ELSE [Outcome("ok", tree, head,
                [b \in DOMAIN local \ {name} |-> local[b]], stage, clock)
          EXCEPT !.remote = [b \in DOMAIN remote \ {name} |-> remote[b]]]

\* branch({ name, isDelete: true })
branchDelete(name) ==
  IF name \notin DOMAIN local THEN Untouched("does not exist")
  ELSE IF head.branch = name THEN Untouched("is in use")
  ELSE [Outcome("ok", tree, head,
                [b \in DOMAIN local \ {name} |-> local[b]], stage, clock)
          EXCEPT !.remote = [b \in DOMAIN remote \ {name} |-> remote[b]]]

(***************************************************************************)
(* checkout                                                                *)
(***************************************************************************)

\* The dirty test of a non-forced checkout.
isDirty(files, currentState) ==
  \/ \E file \in DOMAIN files :
       /\ ~StartsWithArt(file)
       /\ (file \notin DOMAIN currentState \/ files[file] # currentState[file])
  \/ \E file \in DOMAIN currentState : file \notin DOMAIN files

\* checkout without its clean-up loop.
writeTargetStateNoCleanup(files, currentState, targetState) ==
  targetState @@ files

\* checkout whose clean-up removes every file of the current state and whose
\* write loop skips the files the current state holds.
writeTargetStateSkipKnown(files, currentState, targetState) ==
  LET kept == [p \in DOMAIN files \ DOMAIN currentState |-> files[p]]
      written == [p \in DOMAIN targetState \ DOMAIN currentState |->
                    targetState[p]]
  IN written @@ kept

\* The working tree after the clean-up loop and the write loop.
writeTargetState(files, currentState, targetState) ==
  LET removed == {p \in DOMAIN currentState : ~Truthy(targetState, p)}
      kept == [p \in DOMAIN files \ removed |-> files[p]]
  IN targetState @@ kept

lastCommit(commits) == IF Len(commits) > 0 THEN commits[Len(commits)] ELSE NoHash

\* checkout(branchName, { force }) run on the given working tree, head and
\* history (reset runs it after it has rewritten head and manifest).
checkoutFrom(files, hd, history, stagedDirectory, branchName, force) ==
  LET history1 == IF branchName \notin DOMAIN history
                  THEN createBranch(history, hd, branchName)
                  ELSE history
      mirror1 == IF branchName \notin DOMAIN history
                 THEN createRemote(remote, history, hd, branchName)
                 ELSE remote
      currentState == getStateByHash(history1, hd.branch, hd.parent)
      targetHash == lastCommit(history1[branchName].commits)
      targetState == getStateByHash(history1, branchName, targetHash)
  IN IF ~force /\ isDirty(files, currentState)
     THEN [Outcome("local changes would be overwritten",
                   files, hd, history1, stagedDirectory, clock)
             EXCEPT !.remote = mirror1]
     ELSE [Outcome("ok",
                   writeTargetState(files, currentState, targetState),
                   [branch |-> branchName, parent |-> targetHash],
                   history1, stagedDirectory, clock)
             EXCEPT !.remote = mirror1]

checkout(branchName, force) ==
  checkoutFrom(tree, head, local, stage, branchName, force)

(***************************************************************************)
(* stash                                                                   *)
(***************************************************************************)

\* .art/cache before the first stash.
NoStashes == [name \in {} |-> NoDirectory]

\* stashDirectories.sort(): the stash_<timestamp> names in ascending order.
RECURSIVE sortedStashes(_)
sortedStashes(names) ==
  IF names = {} THEN <<>>
  ELSE LET first == CHOOSE n \in names : \A m \in names : n <= m
       IN <<first>> \o sortedStashes(names \ {first})

\* stash({ list: true }): id k of stash@{k} and the directory it names.
stashListOf(cached) ==
  LET stashDirectories == sortedStashes(DOMAIN cached)
  IN [index \in 1..Len(stashDirectories) |->
        [id |-> Len(stashDirectories) - 1 - (index - 1),
         directoryName |-> stashDirectories[index]]]

stashList == stashListOf(cache)

\* The operations stash computes: its delete carries no content.
stashOperations(previousContent, currentContent) ==
  LET operations == DeltaOps(previousContent, currentContent)
  IN [i \in 1..Len(operations) |->
        IF operations[i].type = "delete"
        THEN [type |-> "delete", position |-> operations[i].position,
              length |-> operations[i].length]
        ELSE operations[i]]

\* The body of stash's loop over the working files.
StashFile(stashChanges, activeState, p) ==
  IF p \notin DOMAIN activeState
  THEN Assign(stashChanges, p, CreateFile(tree[p]))
  ELSE IF tree[p] # activeState[p]
          /\ stashOperations(activeState[p], tree[p]) # <<>>
  THEN Assign(stashChanges, p, OpList(stashOperations(activeState[p], tree[p])))
  ELSE stashChanges

RECURSIVE StashFiles(_, _, _)
StashFiles(stashChanges, activeState, files) ==
  IF files = <<>> THEN stashChanges
  ELSE StashFiles(StashFile(stashChanges, activeState, Head(files)),
                  activeState, Tail(files))

\* The loop over the active state: files missing from the working tree.
RECURSIVE StashDeleted(_, _)
StashDeleted(stashChanges, files) ==
  IF files = <<>> THEN stashChanges
  ELSE StashDeleted(Assign(stashChanges, Head(files), DeleteFile), Tail(files))

\* The changes stash() would save in the current state.
stashChangesOf(activeState) ==
  StashDeleted(
    StashFiles(<<>>, activeState,
               SelectSeq(PathOrder,
                         LAMBDA p : p \in DOMAIN tree /\ ~StartsWithArt(p))),
    SelectSeq(PathOrder,
              LAMBDA p : p \in DOMAIN activeState /\ p \notin DOMAIN tree))

\* stash(): the directory is cache/stash_<timestamp>, the timestamp being
\* the next tick of the clock.
stash ==
  LET stashChanges == stashChangesOf(ActiveState)
      timestamp == clock + 1
      reverted == checkoutFrom(tree, head, local, NoDirectory, head.branch, TRUE)
  IN IF stashChanges = <<>> THEN Untouched("No local changes to stash.")
     ELSE [reverted EXCEPT
             !.clock = timestamp,
             !.cache = (timestamp :> Directory(savePaginatedChanges(stashChanges)))
                       @@ cache]

\* stash({ pop: true }) that restores the oldest stash directory.
stashPopOldest(files, hd, history, stagedDirectory, clk, cached) ==
  LET stashes == sortedStashes(DOMAIN cached)
      latestStash == stashes[1]
  IN IF stashes = <<>>
     THEN [Outcome("No stashes found.", files, hd, history, stagedDirectory, clk)
             EXCEPT !.cache = cached]
     ELSE [Outcome("ok",
                   ApplyChanges(files, getPaginatedChanges(cached[latestStash])),
                   hd, history, stagedDirectory, clk)
             EXCEPT !.cache = [n \in DOMAIN cached \ {latestStash} |-> cached[n]]]

\* stash({ pop: true }) run on a working tree and a cache directory.
stashPopFrom(files, hd, history, stagedDirectory, clk, cached) ==
  LET stashes == sortedStashes(DOMAIN cached)
      latestStash == stashes[Len(stashes)]
  IN IF stashes = <<>>
     THEN [Outcome("No stashes found.", files, hd, history, stagedDirectory, clk)
             EXCEPT !.cache = cached]
     ELSE [Outcome("ok",
                   ApplyChanges(files, getPaginatedChanges(cached[latestStash])),
                   hd, history, stagedDirectory, clk)
             EXCEPT !.cache = [n \in DOMAIN cached \ {latestStash} |-> cached[n]]]

stashPop == stashPopFrom(tree, head, local, stage, clock, cache)

(***************************************************************************)
(* reset                                                                   *)
(***************************************************************************)

RECURSIVE indexOf(_, _, _)
indexOf(commits, hash, i) ==
  IF i > Len(commits) THEN 0
  ELSE IF commits[i] = hash THEN i
  ELSE indexOf(commits, hash, i + 1)

\* manifest.commits.slice(0, hashIndex + 1) when the hash is listed.
truncate(commits, hash) ==
  IF indexOf(commits, hash, 1) # 0
  THEN SubSeq(commits, 1, indexOf(commits, hash, 1))
  ELSE commits

\* reset clearing the stage only once the commit was found.
resetClearsLate(hash) ==
  LET branchName == head.branch
  IN IF hash = NoHash
     THEN Outcome("ok", tree, head, local, NoDirectory, clock)
     ELSE IF hash \notin DOMAIN local[branchName].masters
     THEN Untouched("not found")
     ELSE checkoutFrom(tree,
                       [head EXCEPT !.parent = hash],
                       [local EXCEPT ![branchName].commits = truncate(@, hash)],
                       NoDirectory, branchName, FALSE)

reset(hash) ==
  LET branchName == head.branch
  IN IF hash = NoHash
     THEN Outcome("ok", tree, head, local, NoDirectory, clock)
     ELSE IF hash \notin DOMAIN local[branchName].masters
     THEN Outcome("not found", tree, head, local, NoDirectory, clock)
     ELSE checkoutFrom(tree,
                       [head EXCEPT !.parent = hash],
                       [local EXCEPT ![branchName].commits = truncate(@, hash)],
                       NoDirectory, branchName, FALSE)

(***************************************************************************)
(* merge                                                                   *)
(***************************************************************************)

\* [...activeManifest.commits].reverse().find(h => target.includes(h)) || null
RECURSIVE commonAncestor(_, _, _)
commonAncestor(activeCommits, targetCommits, i) ==
  IF i = 0 THEN NoHash
  ELSE IF activeCommits[i] \in Elements(targetCommits) THEN activeCommits[i]
  ELSE commonAncestor(activeCommits, targetCommits, i - 1)

\* a === b for two entries that may be undefined.
Same(s, t, p) ==
  \/ p \notin DOMAIN s /\ p \notin DOMAIN t
  \/ p \in DOMAIN s /\ p \in DOMAIN t /\ s[p] = t[p]

\* value || ''
OrEmpty(s, p) == IF p \in DOMAIN s THEN s[p] ELSE <<>>

\* The conflict blob with the two sides exchanged.
conflictContentSwapped(active, target, targetBranch) ==
  <<MarkerActive>> \o target \o <<MarkerMiddle>> \o active
  \o <<MarkerTarget, targetBranch>>

conflictContent(active, target, targetBranch) ==
  <<MarkerActive>> \o active \o <<MarkerMiddle>> \o target
  \o <<MarkerTarget, targetBranch>>

\* merge emptying a file the target deleted instead of deleting it.
mergeChangeNoDelete(baseState, activeState, targetState, targetBranch, p) ==
  IF Same(activeState, targetState, p) THEN <<>>
  ELSE IF Same(baseState, activeState, p) /\ ~Same(baseState, targetState, p)
  THEN <<CreateFile(OrEmpty(targetState, p))>>
  ELSE IF ~Same(baseState, activeState, p) /\ ~Same(baseState, targetState, p)
  THEN <<CreateFile(conflictContent(OrEmpty(activeState, p),
                                    OrEmpty(targetState, p), targetBranch))>>
  ELSE <<>>

\* merge reporting a conflict for a file changed on the active side only.
mergeChangeOursSide(baseState, activeState, targetState, targetBranch, p) ==
  IF Same(activeState, targetState, p) THEN <<>>
  ELSE IF Same(baseState, activeState, p) /\ ~Same(baseState, targetState, p)
  THEN IF p \notin DOMAIN targetState
       THEN <<DeleteFile>>
       ELSE <<CreateFile(targetState[p])>>
  ELSE IF ~Same(baseState, activeState, p)
  THEN <<CreateFile(conflictContent(OrEmpty(activeState, p),
                                    OrEmpty(targetState, p), targetBranch))>>
  ELSE <<>>

\* The change merge records for one file: a sequence holding it, or empty.
mergeChange(baseState, activeState, targetState, targetBranch, p) ==
  IF Same(activeState, targetState, p) THEN <<>>
  ELSE IF Same(baseState, activeState, p) /\ ~Same(baseState, targetState, p)
  THEN IF p \notin DOMAIN targetState
       THEN <<DeleteFile>>
       ELSE <<CreateFile(targetState[p])>>
  ELSE IF ~Same(baseState, activeState, p) /\ ~Same(baseState, targetState, p)
  THEN <<CreateFile(conflictContent(OrEmpty(activeState, p),
                                    OrEmpty(targetState, p), targetBranch))>>
  ELSE <<>>

\* The loop of merge recording its changes without touching the working tree.
RECURSIVE mergeFilesStageOnly(_, _, _, _, _, _, _)
mergeFilesStageOnly(allFiles, baseState, activeState, targetState, targetBranch, files, changes) ==
  IF allFiles = <<>> THEN <<files, changes>>
  ELSE LET p == Head(allFiles)
           change == mergeChange(baseState, activeState, targetState,
                                 targetBranch, p)
       IN mergeFilesStageOnly(Tail(allFiles), baseState, activeState, targetState,
                              targetBranch, files,
                              IF change = <<>> THEN changes
                              ELSE Assign(changes, p, change[1]))

\* The loop over allFiles: <<working tree, staged changes>>.
RECURSIVE mergeFiles(_, _, _, _, _, _, _)
mergeFiles(allFiles, baseState, activeState, targetState, targetBranch, files, changes) ==
  IF allFiles = <<>> THEN <<files, changes>>
  ELSE LET p == Head(allFiles)
           change == mergeChange(baseState, activeState, targetState,
                                 targetBranch, p)
       IN IF change = <<>>
          THEN mergeFiles(Tail(allFiles), baseState, activeState, targetState,
                          targetBranch, files, changes)
          ELSE mergeFiles(Tail(allFiles), baseState, activeState, targetState,
                          targetBranch,
                          IF change[1].type = "deleteFile"
                          THEN Remove(files, p)
                          ELSE (p :> change[1].content) @@ files,
                          Assign(changes, p, change[1]))

\* The base state of merge: the state at the common ancestor, or {} when the
\* manifests share no hash.
mergeBase(targetBranch) ==
  LET activeBranch == head.branch
      activeCommits == local[activeBranch].commits
      targetCommits == local[targetBranch].commits
      commonAncestorHash == commonAncestor(activeCommits, targetCommits,
                                           Len(activeCommits))
  IN IF commonAncestorHash # NoHash
     THEN getStateByHash(local, activeBranch, commonAncestorHash)
     ELSE EmptyMap

\* The loop of merge over the three states and what it leaves: the working
\* tree and the stage directory written from the recorded changes.
mergeStates(baseState, activeState, targetState, targetBranch, files) ==
  LET allFiles == SelectSeq(PathOrder,
                    LAMBDA p : p \in DOMAIN activeState \cup DOMAIN targetState)
      merged == mergeFiles(allFiles, baseState, activeState, targetState,
                           targetBranch, files, <<>>)
  IN [tree |-> merged[1],
      stage |-> Directory(saveStageParts(merged[2]))]

\* merge moving head.active.parent to the last commit of the target.
mergeMovesHead(targetBranch) ==
  LET activeState == getStateByHash(local, head.branch, head.parent)
      targetState == getStateByHash(local, targetBranch,
                                    lastCommit(local[targetBranch].commits))
      merged == mergeStates(mergeBase(targetBranch), activeState, targetState,
                            targetBranch, tree)
  IN IF targetBranch \notin DOMAIN local
     THEN Outcome("no such branch", tree, head, local, Directory(<<>>), clock)
     ELSE Outcome("ok", merged.tree,
                  [head EXCEPT !.parent = lastCommit(local[targetBranch].commits)],
                  local, merged.stage, clock)

\* merge that keeps what the stage held and adds its own entries to it.
mergeKeepingStage(targetBranch) ==
  LET activeState == getStateByHash(local, head.branch, head.parent)
      targetState == getStateByHash(local, targetBranch,
                                    lastCommit(local[targetBranch].commits))
      merged == mergeStates(mergeBase(targetBranch), activeState, targetState,
                            targetBranch, tree)
  IN IF targetBranch \notin DOMAIN local
     THEN Outcome("no such branch", tree, head, local, Directory(<<>>), clock)
     ELSE Outcome("ok", merged.tree, head, local,
                  Directory(saveStageParts(
                    ObjectAssign(getStagedChanges(stage),
                                 getStagedChanges(merged.stage)))),
                  clock)

merge(targetBranch) ==
  LET activeState == getStateByHash(local, head.branch, head.parent)
      targetState == getStateByHash(local, targetBranch,
                                    lastCommit(local[targetBranch].commits))
      merged == mergeStates(mergeBase(targetBranch), activeState, targetState,
                            targetBranch, tree)
  IN IF targetBranch \notin DOMAIN local
     THEN \* the target manifest cannot be read; the stage directory was
          \* already removed and created again, empty
          Outcome("no such branch", tree, head, local, Directory(<<>>), clock)
     ELSE Outcome("ok", merged.tree, head, local, merged.stage, clock)

(***************************************************************************)
(* The state machine.                                                      *)
(***************************************************************************)

\* The delta engine is not run on its own in the repository.
\* No call is between two writes.
IdlePaged == [at |-> "idle", writer |-> "", limit |-> 0, changes |-> <<>>,
              directory |-> [exists |-> FALSE, parts |-> <<>>], loaded |-> <<>>]

IdlePc == [at |-> "idle", arg |-> "", hash |-> NoHash, parent |-> NoHash,
           parts |-> <<>>, written |-> 0]

IdleDelta == [phase |-> "idle", previous |-> <<>>, current |-> <<>>,
              ops |-> <<>>, result |-> <<>>]

\* The merge loop is not run on its own in the repository.
IdleThreeWay == [phase |-> "idle", base |-> EmptyMap, active |-> EmptyMap,
                 target |-> EmptyMap, targetBranch |-> "main",
                 files |-> EmptyMap, tree |-> EmptyMap, stage |-> NoDirectory]

\* init on a directory: the root snapshot takes every file the ignore
\* predicate lets through.
rootSnapshot(files) ==
  [p \in {q \in DOMAIN files : ~shouldIgnore(q, files)} |-> files[p]]

Init ==
  /\ tree \in InitTrees
  /\ root = rootSnapshot(tree)
  /\ head = [branch |-> "main", parent |-> NoHash]
  /\ local = ("main" :> EmptyBranch)
  /\ stage = NoDirectory
  /\ clock = 0
  /\ steps = 0
  /\ last = Call("init", "", NoHash, FALSE, "ok")
  /\ delta = IdleDelta
  /\ threeWay = IdleThreeWay
  /\ remote = ("main" :> <<>>)
  /\ cache = NoStashes
  /\ pc = IdlePc
  /\ paged = IdlePaged

\* What the calls read and write.
repo == <<tree, head, local, stage, clock, remote, cache, root>>

\* init that takes the snapshot again in a directory that has a repository.
initAgain == [Untouched("ok") EXCEPT !.root = rootSnapshot(tree)]

\* init in a directory that holds .art already, as every state after Init
\* does: it returns before writing anything.
init == Untouched("Reinitialized existing art repository")

\* The repository takes the outcome of a call.  The model follows it through
\* MaxSteps changes: a call that changes something is one step and is
\* remembered in last; a call that changes nothing leaves no trace.
DoWithin(bound, op, arg, hash, force, outcome) ==
  /\ pc = IdlePc
  /\ tree' = outcome.tree
  /\ head' = outcome.head
  /\ local' = outcome.local
  /\ stage' = outcome.stage
  /\ clock' = outcome.clock
  /\ root' = outcome.root
  /\ delta' = delta
  /\ threeWay' = threeWay
  /\ paged' = paged
  /\ remote' = outcome.remote
  /\ cache' = outcome.cache
  /\ pc' = pc
  /\ IF repo' = repo
     THEN UNCHANGED <<steps, last>>
     ELSE /\ steps < bound
          /\ steps' = steps + 1
          /\ last' = Call(op, arg, hash, force, outcome.result)

Do(op, arg, hash, force, outcome) == DoWithin(MaxSteps, op, arg, hash, force, outcome)

\* The user writes a file of the working tree.
EditFile(p, content) ==
  Do("edit", "", NoHash, FALSE,
     Outcome("ok", (p :> content) @@ tree, head, local, stage, clock))

\* The user deletes a file of the working tree.
UnlinkFile(p) ==
  /\ p \in DOMAIN tree
  /\ Do("edit", "", NoHash, FALSE,
        Outcome("ok", Remove(tree, p), head, local, stage, clock))

Add(targetPath) == Do("add", targetPath, NoHash, FALSE, add(targetPath))

Rm(filePath) == Do("rm", filePath, NoHash, FALSE, rm(filePath))

Commit(message) == Do("commit", message, clock + 1, FALSE, commit(message))

Branch(name) == Do("branch", name, NoHash, FALSE, branch(name))

Checkout(branchName, force) ==
  Do("checkout", branchName, NoHash, force, checkout(branchName, force))

Reset(hash) == Do("reset", "", hash, FALSE, reset(hash))

Merge(targetBranch) == Do("merge", targetBranch, NoHash, FALSE, merge(targetBranch))

Reinit == Do("init", "", NoHash, FALSE, init)

BranchDelete(name) == Do("delete", name, NoHash, FALSE, branchDelete(name))

Stash == Do("stash", "", NoHash, FALSE, stash)

StashPop == Do("pop", "", NoHash, FALSE, stashPop)

Next ==
  \/ \E p \in Paths, content \in Contents : EditFile(p, content)
  \/ \E p \in Paths : UnlinkFile(p)
  \/ \E targetPath \in Paths \cup {"."} : Add(targetPath)
  \/ \E filePath \in Paths : Rm(filePath)
  \/ \E message \in Messages : Commit(message)
  \/ \E name \in BranchNames : Branch(name)
  \/ \E name \in BranchNames, force \in BOOLEAN : Checkout(name, force)
  \/ \E hash \in 0..(clock + 1) : Reset(hash)
  \/ \E name \in BranchNames : Merge(name)

Spec == Init /\ [][Next]_vars

(***************************************************************************)
(* The repository with its caches: the stash and the deletion of branches, *)
(* next to the calls that produce what they work on.                       *)
(***************************************************************************)

NextCaches ==
  \/ \E p \in Paths, content \in Contents : EditFile(p, content)
  \/ \E p \in Paths : UnlinkFile(p)
  \/ \E targetPath \in Paths \cup {"."} : Add(targetPath)
  \/ \E message \in Messages : Commit(message)
  \/ \E name \in BranchNames, force \in BOOLEAN : Checkout(name, force)
  \/ \E name \in BranchNames : BranchDelete(name)
  \/ Stash
  \/ StashPop

SpecCaches == Init /\ [][NextCaches]_vars

(***************************************************************************)
(* The repository on one branch: the working tree, the stage and the       *)
(* commits of the active branch, with rm and reset.                        *)
(***************************************************************************)

NextStaging ==
  \/ \E p \in Paths, content \in Contents : EditFile(p, content)
  \/ \E p \in Paths : UnlinkFile(p)
  \/ \E targetPath \in Paths \cup {"."} : Add(targetPath)
  \/ \E filePath \in Paths : Rm(filePath)
  \/ \E message \in Messages : Commit(message)
  \/ \E hash \in 0..(clock + 1) : Reset(hash)

SpecStaging == Init /\ [][NextStaging]_vars

(***************************************************************************)
(* The life of a repository: every call, on one working file.              *)
(***************************************************************************)

LifePath == "a.txt"

NextLifecycle ==
  \/ Reinit
  \/ \E content \in Contents : EditFile(LifePath, content)
  \/ UnlinkFile(LifePath)
  \/ \E targetPath \in {LifePath, "."} : Add(targetPath)
  \/ Rm(LifePath)
  \/ \E message \in Messages : Commit(message)
  \/ \E name \in BranchNames : Branch(name)
  \/ \E name \in BranchNames, force \in BOOLEAN : Checkout(name, force)
  \/ \E hash \in 0..(clock + 1) : Reset(hash)
  \/ \E name \in BranchNames : Merge(name)
  \/ \E name \in BranchNames : BranchDelete(name)
  \/ Stash
  \/ StashPop

SpecLifecycle == Init /\ [][NextLifecycle]_vars

(***************************************************************************)
(* The writes of commit, add and rm, one file at a time.  commit writes    *)
(* its parts, the commit master, the branch manifest, art.json and then    *)
(* removes the stage; a stage save empties the directory, writes the parts *)
(* and then the manifest.  While a save is under way `stage` is what a     *)
(* reader finds through the manifest.                                      *)
(***************************************************************************)

MaxWrites == 8

Begin(at, op, arg, hash, parts) ==
  /\ pc = IdlePc
  /\ steps < MaxWrites
  /\ steps' = steps + 1
  /\ last' = Call(op, arg, hash, FALSE, "ok")
  /\ pc' = [at |-> at, arg |-> arg, hash |-> hash, parent |-> head.parent,
            parts |-> parts, written |-> 0]

CommitBegin(message) ==
  /\ message # ""
  /\ stage.exists
  /\ Begin("parts", "commit", message, clock + 1,
           savePaginatedChanges(getStagedChanges(stage)))
  /\ clock' = clock + 1
  /\ UNCHANGED <<paged, tree, root, head, local, stage, delta, threeWay, remote, cache>>

\* saveCommitPart
CommitWritePart ==
  /\ pc.at = "parts"
  /\ pc.written < Len(pc.parts)
  /\ local' = [local EXCEPT ![head.branch].parts =
                 (<<pc.hash, pc.written>> :> pc.parts[pc.written + 1]) @@ @]
  /\ pc' = [pc EXCEPT !.written = @ + 1]
  /\ UNCHANGED <<paged, tree, root, head, stage, clock, steps, last, delta, threeWay,
                 remote, cache>>

CommitWriteMaster ==
  /\ pc.at = "parts"
  /\ pc.written = Len(pc.parts)
  /\ local' = [local EXCEPT ![head.branch].masters =
                 (pc.hash :> [hash |-> pc.hash, message |-> pc.arg,
                              parent |-> pc.parent,
                              parts |-> PartNames(pc.hash, Len(pc.parts))]) @@ @]
  /\ pc' = [pc EXCEPT !.at = "manifest"]
  /\ UNCHANGED <<paged, tree, root, head, stage, clock, steps, last, delta, threeWay,
                 remote, cache>>

CommitWriteManifest ==
  /\ pc.at = "manifest"
  /\ local' = [local EXCEPT ![head.branch].commits = Append(@, pc.hash)]
  /\ pc' = [pc EXCEPT !.at = "head"]
  /\ UNCHANGED <<paged, tree, root, head, stage, clock, steps, last, delta, threeWay,
                 remote, cache>>

CommitWriteHead ==
  /\ pc.at = "head"
  /\ head' = [head EXCEPT !.parent = pc.hash]
  /\ pc' = [pc EXCEPT !.at = "stage"]
  /\ UNCHANGED <<paged, tree, root, local, stage, clock, steps, last, delta, threeWay,
                 remote, cache>>

CommitRemoveStage ==
  /\ pc.at = "stage"
  /\ stage' = NoDirectory
  /\ pc' = IdlePc
  /\ UNCHANGED <<paged, tree, root, head, local, clock, steps, last, delta, threeWay,
                 remote, cache>>

\* rmSync and mkdirSync of the stage directory: a reader finds no change.
SaveBegin(op, arg, parts) ==
  /\ Begin(op, op, arg, NoHash, parts)
  /\ stage' = Directory(<<>>)
  /\ UNCHANGED <<paged, tree, root, head, local, clock, delta, threeWay, remote, cache>>

RmBegin(filePath) ==
  SaveBegin("rm", filePath,
            savePaginatedChanges(
              Assign(getPaginatedChanges(stage), filePath, DeleteFile)))

AddBegin(targetPath) ==
  /\ add(targetPath).result = "ok"
  /\ SaveBegin("add", targetPath, add(targetPath).stage.parts)

\* savePart
SaveWritePart ==
  /\ pc.at \in {"rm", "add"}
  /\ pc.written < Len(pc.parts)
  /\ pc' = [pc EXCEPT !.written = @ + 1]
  /\ UNCHANGED <<paged, tree, root, head, local, stage, clock, steps, last, delta,
                 threeWay, remote, cache>>

\* The manifest of the stage; rm then unlinks the working file.
SaveWriteManifest ==
  /\ pc.at \in {"rm", "add"}
  /\ pc.written = Len(pc.parts)
  /\ stage' = Directory(pc.parts)
  /\ pc' = [pc EXCEPT !.at = IF pc.at = "rm" THEN "unlink" ELSE "idle",
                      !.arg = IF pc.at = "rm" THEN pc.arg ELSE "",
                      !.parent = IF pc.at = "rm" THEN pc.parent ELSE NoHash,
                      !.parts = IF pc.at = "rm" THEN pc.parts ELSE <<>>,
                      !.written = IF pc.at = "rm" THEN pc.written ELSE 0]
  /\ UNCHANGED <<paged, tree, root, head, local, clock, steps, last, delta, threeWay,
                 remote, cache>>

RmUnlink ==
  /\ pc.at = "unlink"
  /\ tree' = Remove(tree, pc.arg)
  /\ pc' = IdlePc
  /\ UNCHANGED <<paged, root, head, local, stage, clock, steps, last, delta, threeWay,
                 remote, cache>>

ResetWithin(hash) == DoWithin(MaxWrites, "reset", "", hash, FALSE, reset(hash))

NextWrites ==
  \/ \E message \in Messages : CommitBegin(message)
  \/ CommitWritePart
  \/ CommitWriteMaster
  \/ CommitWriteManifest
  \/ CommitWriteHead
  \/ CommitRemoveStage
  \/ \E filePath \in Paths : RmBegin(filePath)
  \/ AddBegin(".")
  \/ SaveWritePart
  \/ SaveWriteManifest
  \/ RmUnlink
  \/ \E hash \in 0..(clock + 1) : ResetWithin(hash)

SpecWrites == Init /\ [][NextWrites]_vars

(***************************************************************************)
(* The delta engine and the replay of its ops, run on every pair of        *)
(* strings of at most MaxStr characters.                                   *)
(***************************************************************************)

InitDelta ==
  /\ tree = EmptyMap
  /\ root = EmptyMap
  /\ head = [branch |-> "main", parent |-> NoHash]
  /\ local = ("main" :> EmptyBranch)
  /\ stage = NoDirectory
  /\ clock = 0
  /\ steps = 0
  /\ last = Call("init", "", NoHash, FALSE, "ok")
  /\ delta \in {[phase |-> "input", previous |-> p, current |-> q,
                 ops |-> <<>>, result |-> <<>>] :
                  p \in StringsUpTo(MaxStr), q \in StringsUpTo(MaxStr)}
  /\ threeWay = IdleThreeWay
  /\ remote = ("main" :> <<>>)
  /\ cache = NoStashes
  /\ pc = IdlePc
  /\ paged = IdlePaged

\* add's delta computation on (previous, current).
ComputeDelta ==
  /\ delta.phase = "input"
  /\ delta' = [delta EXCEPT !.phase = "computed",
                            !.ops = DeltaOps(delta.previous, delta.current)]
  /\ UNCHANGED <<paged, tree, root, head, local, stage, clock, steps, last, threeWay, remote, cache, pc>>

\* getStateByHash's replay of the ops on previous.
ReplayDelta ==
  /\ delta.phase = "computed"
  /\ delta' = [delta EXCEPT !.phase = "replayed",
                            !.result = ApplyOps(delta.previous, delta.ops)]
  /\ UNCHANGED <<paged, tree, root, head, local, stage, clock, steps, last, threeWay, remote, cache, pc>>

NextDelta == ComputeDelta \/ ReplayDelta

SpecDelta == InitDelta /\ [][NextDelta]_vars

(***************************************************************************)
(* The merge loop run on every three states and working tree over Paths    *)
(* whose files hold one of MergeContents.                                  *)
(***************************************************************************)

MergeContents == {<<>>, <<"a">>, <<"x">>}

MergeStates == UNION {[D -> MergeContents] : D \in SUBSET Paths}

InitMerge ==
  /\ tree = EmptyMap
  /\ root = EmptyMap
  /\ head = [branch |-> "main", parent |-> NoHash]
  /\ local = ("main" :> EmptyBranch)
  /\ stage = NoDirectory
  /\ clock = 0
  /\ steps = 0
  /\ last = Call("init", "", NoHash, FALSE, "ok")
  /\ delta = IdleDelta
  /\ remote = ("main" :> <<>>)
  /\ cache = NoStashes
  /\ pc = IdlePc
  /\ paged = IdlePaged
  /\ threeWay \in {[phase |-> "input", base |-> b, active |-> a, target |-> t,
                    targetBranch |-> "dev", files |-> f,
                    tree |-> EmptyMap, stage |-> NoDirectory] :
                     b \in MergeStates, a \in MergeStates, t \in MergeStates,
                     f \in InitTrees}

\* merge's loop and stage write on (base, active, target) and the tree.
MergeThreeWay ==
  /\ threeWay.phase = "input"
  /\ threeWay' =
       [threeWay EXCEPT
          !.phase = "merged",
          !.tree = mergeStates(threeWay.base, threeWay.active, threeWay.target,
                               threeWay.targetBranch, threeWay.files).tree,
          !.stage = mergeStates(threeWay.base, threeWay.active, threeWay.target,
                                threeWay.targetBranch, threeWay.files).stage]
  /\ UNCHANGED <<paged, tree, root, head, local, stage, clock, steps, last, delta, remote, cache, pc>>

NextMerge == MergeThreeWay

SpecMerge == InitMerge /\ [][NextMerge]_vars

(***************************************************************************)
(* Two branches that diverge and meet again: the calls on one file that    *)
(* lead to a merge with a common ancestor, within MaxMergeSteps changes.   *)
(***************************************************************************)

MaxMergeSteps == 8

EditBeforeMerge(content) ==
  DoWithin(MaxMergeSteps, "edit", "", NoHash, FALSE,
           Outcome("ok", (LifePath :> content) @@ tree, head, local, stage, clock))

AddBeforeMerge == DoWithin(MaxMergeSteps, "add", ".", NoHash, FALSE, add("."))

RmBeforeMerge ==
  DoWithin(MaxMergeSteps, "rm", LifePath, NoHash, FALSE, rm(LifePath))

CommitBeforeMerge ==
  DoWithin(MaxMergeSteps, "commit", "m", clock + 1, FALSE, commit("m"))

CheckoutBeforeMerge(branchName) ==
  DoWithin(MaxMergeSteps, "checkout", branchName, NoHash, FALSE,
           checkout(branchName, FALSE))

MergeWithin(targetBranch) ==
  DoWithin(MaxMergeSteps, "merge", targetBranch, NoHash, FALSE, merge(targetBranch))

NextBranches ==
  \/ \E content \in Contents : EditBeforeMerge(content)
  \/ AddBeforeMerge
  \/ RmBeforeMerge
  \/ CommitBeforeMerge
  \/ \E name \in BranchNames : CheckoutBeforeMerge(name)
  \/ \E name \in BranchNames : MergeWithin(name)

SpecBranches == Init /\ [][NextBranches]_vars


(***************************************************************************)
(* The paginated store on its own: a change mapping is written by one of   *)
(* the four writers and loaded back.  The limit is drawn from PartLimits   *)
(* so that mappings of a few small changes are split as mappings of large  *)
(* ones are split at MAX_PART_SIZE.                                        *)
(***************************************************************************)

PagePaths == {"a.txt", "b.txt", ".artignore"}

PageChanges ==
  {CreateFile(<<>>), CreateFile(<<"x", "a">>), DeleteFile,
   OpList(<<InsertOp(0, <<"x">>)>>),
   OpList(<<DeleteOp(0, 1, <<"a">>), InsertOp(0, <<"x">>)>>)}

PartLimits == {60, 150, MAX_PART_SIZE}

\* Every mapping over a subset of the paths, in every insertion order.
RECURSIVE PageMappingsOver(_)
PageMappingsOver(paths) ==
  {<<>>} \cup
  UNION {{<<Entry(p, c)>> \o m : c \in PageChanges,
                                 m \in PageMappingsOver(paths \ {p})} :
         p \in paths}

PageMappings == PageMappingsOver(PagePaths)

InitPages ==
  /\ tree = EmptyMap
  /\ root = EmptyMap
  /\ head = [branch |-> "main", parent |-> NoHash]
  /\ local = ("main" :> EmptyBranch)
  /\ stage = NoDirectory
  /\ clock = 0
  /\ steps = 0
  /\ last = Call("init", "", NoHash, FALSE, "ok")
  /\ delta = IdleDelta
  /\ threeWay = IdleThreeWay
  /\ remote = ("main" :> <<>>)
  /\ cache = NoStashes
  /\ pc = IdlePc
  /\ paged \in {[at |-> "input", writer |-> "", limit |-> l, changes |-> m,
                 directory |-> NoDirectory, loaded |-> <<>>] :
                  l \in PartLimits, m \in PageMappings}

PagedWrite(writer, parts) ==
  /\ paged.at = "input"
  /\ paged' = [paged EXCEPT !.at = "saved", !.writer = writer,
                            !.directory = Directory(parts)]
  /\ UNCHANGED <<tree, root, head, local, stage, clock, steps, last, delta,
                 threeWay, remote, cache, pc>>

\* savePaginatedChanges: the writer of rm, reset's callers and stash.
PagedSave ==
  PagedWrite("savePaginatedChanges",
             savePaginatedChangesAt(paged.limit, paged.changes))

\* add's stage writer.
PagedAdd == PagedWrite("add", StagePartsAt(paged.limit, paged.changes))

\* commit's part writer.
PagedCommit == PagedWrite("commit", saveCommitPartsAt(paged.limit, paged.changes))

\* merge's stage writer.
PagedMerge == PagedWrite("merge", saveStagePartsAt(paged.limit, paged.changes))

\* getPaginatedChanges on the directory written.
PagedLoad ==
  /\ paged.at = "saved"
  /\ paged' = [paged EXCEPT !.at = "loaded",
                            !.loaded = getPaginatedChanges(paged.directory)]
  /\ UNCHANGED <<tree, root, head, local, stage, clock, steps, last, delta,
                 threeWay, remote, cache, pc>>

NextPages == PagedSave \/ PagedAdd \/ PagedCommit \/ PagedMerge \/ PagedLoad

SpecPages == InitPages /\ [][NextPages]_vars


(***************************************************************************)
(* Properties.                                                             *)
(***************************************************************************)

\* The length of the longest common prefix of two strings.
CommonPrefixLen(p, q) ==
  CHOOSE k \in 0..Min(Len(p), Len(q)) :
    /\ SubSeq(p, 1, k) = SubSeq(q, 1, k)
    /\ k = Min(Len(p), Len(q)) \/ p[k + 1] # q[k + 1]

\* At most one delete followed by at most one insert.
DeleteThenInsert(ops) ==
  \/ ops = <<>>
  \/ Len(ops) = 1 /\ ops[1].type \in {"delete", "insert"}
  \/ Len(ops) = 2 /\ ops[1].type = "delete" /\ ops[2].type = "insert"

\* C2: for all strings p and q the ops computed for (p, q) are at most one
\* delete followed by at most one insert, both at the common-prefix
\* position; replayed in order on p they give exactly q; identical strings
\* give no ops.
C2_DeltaRoundTrip ==
  /\ delta.phase \in {"computed", "replayed"} =>
       /\ DeleteThenInsert(delta.ops)
       /\ \A i \in 1..Len(delta.ops) :
            delta.ops[i].position = CommonPrefixLen(delta.previous, delta.current)
       /\ delta.previous = delta.current => delta.ops = <<>>
  /\ delta.phase = "replayed" => delta.result = delta.current

\* A pair of strings with a common prefix and a common suffix around a
\* replaced middle has been through the engine and the replay.
C2_Witness ==
  /\ delta.phase = "replayed"
  /\ Len(delta.ops) = 2
  /\ delta.ops[1].position = 1
  /\ Len(delta.previous) = 3
  /\ Len(delta.current) = 3

(***************************************************************************)
(* Properties of the repository.  A property of a call is stated on its    *)
(* outcome in every reachable state and for every argument.                *)
(***************************************************************************)

\* The changes of a commit as replay loads them from a branch directory.
ChangesOf(directory, hash) ==
  CommitChanges(directory, directory.masters[hash].parts, <<>>)

\* The state replayed at the commit that the outcome of commit created.
CommittedState(outcome) ==
  getStateByHash(outcome.local, outcome.head.branch, outcome.head.parent)

\* The stage entry of p is the one add computes from the file as it is now.
StagedAsIs(p) ==
  /\ p \in DOMAIN tree
  /\ p \in Keys(getStagedChanges(stage))
  /\ Lookup(getStagedChanges(stage), p) =
       IF p \notin DOMAIN ActiveState THEN CreateFile(tree[p])
       ELSE OpList(DeltaOps(ActiveState[p], tree[p]))

\* C1 as stated: for every commit c created by commit() on branch b,
\* getStateByHash(b, c) equals the working tree as it was when c was taken.
C1_CommitReproducesTree ==
  \A message \in Messages :
    commit(message).result = "ok" => CommittedState(commit(message)) = tree

\* C1, amended: for every commit c created by commit() on branch b and every
\* file whose stage entry is the one add computes from its working-tree
\* content at that moment, getStateByHash(b, c) holds the file with exactly
\* the working-tree content.
C1_StagedFilesReproduced ==
  \A message \in Messages, p \in Paths :
    (commit(message).result = "ok" /\ StagedAsIs(p)) =>
      /\ p \in DOMAIN CommittedState(commit(message))
      /\ CommittedState(commit(message))[p] = tree[p]

\* A commit was just made whose changes hold a delete and an insert for a
\* file, and the state replayed at it holds the file as the tree does.
C1_Witness ==
  /\ last.op = "commit"
  /\ last.result = "ok"
  /\ \E p \in DOMAIN tree :
       LET changes == ChangesOf(local[head.branch], head.parent)
       IN /\ p \in Keys(changes)
          /\ Lookup(changes, p).type = "ops"
          /\ \E i \in 1..Len(Lookup(changes, p).ops) :
               Lookup(changes, p).ops[i].type = "insert"
               /\ Len(tree[p]) > Len(Lookup(changes, p).ops[i].content)
          /\ p \in DOMAIN ActiveState
          /\ ActiveState[p] = tree[p]

\* C3: a successful commit(message) appends exactly one new hash to the end
\* of the active branch's manifest, sets head.active.parent to it, stores the
\* previous head.active.parent as the master's parent, persists the staged
\* change set as the commit's parts and removes the stage.
C3_CommitEffects ==
  \A message \in Messages :
    LET outcome == commit(message)
        b == head.branch
        h == outcome.head.parent
    IN outcome.result = "ok" =>
         /\ h \notin Elements(local[b].commits)
         /\ outcome.local[b].commits = Append(local[b].commits, h)
         /\ outcome.head = [branch |-> b, parent |-> h]
         /\ h \in DOMAIN outcome.local[b].masters
         /\ outcome.local[b].masters[h].parent = head.parent
         /\ Elements(outcome.local[b].masters[h].parts)
              \subseteq DOMAIN outcome.local[b].parts
         /\ ChangesOf(outcome.local[b], h) = getStagedChanges(stage)
         /\ ~outcome.stage.exists
         /\ DOMAIN outcome.local = DOMAIN local
         /\ \A other \in DOMAIN local \ {b} : outcome.local[other] = local[other]

\* A second commit was just made on a branch: its master names the first as
\* parent and its parts hold changes.
C3_Witness ==
  /\ last.op = "commit"
  /\ last.result = "ok"
  /\ Len(local[head.branch].commits) >= 2
  /\ local[head.branch].masters[head.parent].parent # NoHash
  /\ ChangesOf(local[head.branch], head.parent) # <<>>
  /\ ~stage.exists

\* C4: commit(message) fails with an error, and creates no commit, whenever
\* the stage is absent or the staged change set holds no change entry.
C4_EmptyStageRefused ==
  \A message \in Messages :
    (~stage.exists \/ getStagedChanges(stage) = <<>>) =>
      /\ commit(message).result # "ok"
      /\ commit(message).local = local
      /\ commit(message).head = head

\* The working tree is dirty: a file outside .art differs from its entry in
\* the active state (no entry counts as different), or an entry of the
\* active state is missing from the working tree.
TreeIsDirty ==
  \/ \E file \in DOMAIN tree :
       file \notin DOMAIN ActiveState \/ tree[file] # ActiveState[file]
  \/ \E file \in DOMAIN ActiveState : file \notin DOMAIN tree

\* C5: checkout(b) without force fails with the 'local changes would be
\* overwritten' error whenever the working tree is dirty.
C5_DirtyTreeRefused ==
  \A b \in BranchNames :
    TreeIsDirty =>
      checkout(b, FALSE).result = "local changes would be overwritten"

\* C6: after a successful checkout(b), head.active is b with the last hash
\* of b's manifest (null if it is empty), every file of the state replayed
\* at that hash is in the working tree with exactly that content, and every
\* file of the former active state that is not in the target state is absent.
C6_CheckoutEffects ==
  \A b \in BranchNames, force \in BOOLEAN :
    LET outcome == checkout(b, force)
        targetState == getStateByHash(outcome.local, b, outcome.head.parent)
    IN outcome.result = "ok" =>
         /\ outcome.head = [branch |-> b,
                            parent |-> lastCommit(outcome.local[b].commits)]
         /\ \A p \in DOMAIN targetState :
              p \in DOMAIN outcome.tree /\ outcome.tree[p] = targetState[p]
         /\ \A p \in DOMAIN ActiveState \ DOMAIN targetState :
              p \notin DOMAIN outcome.tree

\* A checkout just succeeded, and a file that another branch holds at its
\* last commit is absent from the working tree.
C6_Witness ==
  /\ last.op = "checkout"
  /\ last.result = "ok"
  /\ head.branch = last.arg
  /\ head.parent = lastCommit(local[head.branch].commits)
  /\ \E other \in DOMAIN local \ {head.branch} :
       \E p \in DOMAIN getStateByHash(local, other, lastCommit(local[other].commits)) :
         p \notin DOMAIN tree /\ p \notin DOMAIN ActiveState

\* C7: a checkout that fails leaves the whole repository unchanged: head, the
\* set of branches, every manifest and commit object, the stage and the
\* working tree, also when the named branch did not exist.
C7_FailedCheckoutChangesNothing ==
  \A b \in BranchNames, force \in BOOLEAN :
    LET outcome == checkout(b, force)
    IN outcome.result # "ok" =>
         /\ outcome.head = head
         /\ outcome.local = local
         /\ outcome.stage = stage
         /\ outcome.tree = tree

C9_ResetMovesHead ==
  \A h \in DOMAIN local[head.branch].masters :
    LET outcome == reset(h)
    IN outcome.result = "ok" =>
         /\ outcome.head.parent = h
         /\ lastCommit(outcome.local[head.branch].commits) = h

\* C10: reset(h), for h in the active branch's manifest, completes without a
\* dirty-tree error whatever the working tree held, and afterwards the
\* working tree equals the state reconstructed at h.
C10_ResetForcesCheckout ==
  \A h \in Elements(local[head.branch].commits) :
    LET outcome == reset(h)
    IN /\ outcome.result = "ok"
       /\ outcome.tree = getStateByHash(outcome.local, head.branch, h)

\* C11: reset(h) with a hash for which no commit master exists in the active
\* branch fails with a not-found error and leaves the repository unchanged,
\* including the stage.
C11_UnknownHashChangesNothing ==
  \A h \in 1..(clock + 1) :
    h \notin DOMAIN local[head.branch].masters =>
      /\ reset(h).result = "not found"
      /\ reset(h).head = head
      /\ reset(h).local = local
      /\ reset(h).tree = tree
      /\ reset(h).stage = stage

\* head.active.parent is null or a hash of the manifest of head.active.branch.
HeadInManifest(hd, history) ==
  \/ hd.parent = NoHash
  \/ /\ hd.branch \in DOMAIN history
     /\ hd.parent \in Elements(history[hd.branch].commits)

\* C12: in every reachable state, after any sequence of calls (successful or
\* failing), head.active.parent is either null or a hash present in the
\* local manifest of head.active.branch.  Stated on the state and on what
\* every call leaves behind from it.
C12_HeadParentInManifest ==
  /\ HeadInManifest(head, local)
  /\ \A targetPath \in Paths \cup {"."} :
       HeadInManifest(add(targetPath).head, add(targetPath).local)
  /\ \A filePath \in Paths : HeadInManifest(rm(filePath).head, rm(filePath).local)
  /\ \A message \in Messages :
       HeadInManifest(commit(message).head, commit(message).local)
  /\ \A name \in BranchNames :
       /\ HeadInManifest(branch(name).head, branch(name).local)
       /\ HeadInManifest(merge(name).head, merge(name).local)
       /\ \A force \in BOOLEAN :
            HeadInManifest(checkout(name, force).head, checkout(name, force).local)
  /\ \A hash \in 0..(clock + 1) :
       HeadInManifest(reset(hash).head, reset(hash).local)

\* C13: in every reachable state, for every local branch b and every hash h
\* in b's manifest, the commit master of h and every part file it names
\* exist in b's local history directory, and every change entry is a
\* createFile, a deleteFile or an op list.
C13_ManifestObjectsExist ==
  \A b \in DOMAIN local :
    \A i \in 1..Len(local[b].commits) :
      LET h == local[b].commits[i]
      IN /\ h \in DOMAIN local[b].masters
         /\ \A k \in 1..Len(local[b].masters[h].parts) :
              LET n == local[b].masters[h].parts[k]
              IN /\ n \in DOMAIN local[b].parts
                 /\ \A e \in 1..Len(local[b].parts[n]) :
                      LET change == local[b].parts[n][e].change
                      IN /\ change.type \in {"createFile", "deleteFile", "ops"}
                         /\ change.type = "ops" =>
                              \A o \in 1..Len(change.ops) :
                                change.ops[o].type \in {"insert", "delete"}

\* A branch made by branch() holds a commit with a part, and so does main.
C13_Witness ==
  /\ Len(local["main"].commits) > 0
  /\ \E b \in DOMAIN local \ {"main"} :
       /\ Len(local[b].commits) > 0
       /\ \E i \in 1..Len(local[b].commits) :
            /\ local[b].commits[i] \in DOMAIN local[b].masters
            /\ local[b].masters[local[b].commits[i]].parts # <<>>

\* The content holds the opening conflict marker.
HasMarkers(content) == \E i \in 1..Len(content) : content[i] = MarkerActive

\* C14: in merge(t), for every path whose base content equals ours and
\* differs from theirs: if theirs is absent the working-tree file is deleted
\* and a deleteFile entry is staged; otherwise the working-tree file is
\* overwritten with theirs and a createFile entry holding theirs is staged.
C14_TheirsTaken ==
  threeWay.phase = "merged" =>
    \A p \in Paths :
      LET staged == getStagedChanges(threeWay.stage)
      IN (Same(threeWay.base, threeWay.active, p)
          /\ ~Same(threeWay.base, threeWay.target, p)) =>
           /\ p \in Keys(staged)
           /\ IF p \notin DOMAIN threeWay.target
              THEN /\ p \notin DOMAIN threeWay.tree
                   /\ Lookup(staged, p) = DeleteFile
              ELSE /\ p \in DOMAIN threeWay.tree
                   /\ threeWay.tree[p] = threeWay.target[p]
                   /\ Lookup(staged, p) = CreateFile(threeWay.target[p])

\* A merge has deleted a file of the tree that the target deleted and, in the
\* same run, overwritten another file with the target's content.
C14_Witness ==
  /\ threeWay.phase = "merged"
  /\ \E p \in Paths, q \in Paths :
       /\ p # q
       /\ p \in DOMAIN threeWay.base /\ Same(threeWay.base, threeWay.active, p)
       /\ p \notin DOMAIN threeWay.target
       /\ p \in DOMAIN threeWay.files /\ p \notin DOMAIN threeWay.tree
       /\ Same(threeWay.base, threeWay.active, q)
       /\ q \in DOMAIN threeWay.target /\ ~Same(threeWay.base, threeWay.target, q)
       /\ q \in DOMAIN threeWay.files
       /\ threeWay.files[q] # threeWay.target[q]
       /\ threeWay.tree[q] = threeWay.target[q]

\* C15: in merge(t), for every path where base, ours and theirs are pairwise
\* different, the working-tree file and a staged createFile entry both hold
\* exactly '<<<<<<< active\n' + (ours or '') + '\n=======\n' + (theirs or '')
\* + '\n>>>>>>> ' + t; no other path receives conflict markers.
C15_ConflictBlob ==
  threeWay.phase = "merged" =>
    \A p \in Paths :
      LET staged == getStagedChanges(threeWay.stage)
          ours == IF p \in DOMAIN threeWay.active THEN threeWay.active[p] ELSE <<>>
          theirs == IF p \in DOMAIN threeWay.target THEN threeWay.target[p] ELSE <<>>
          blob == <<MarkerActive>> \o ours \o <<MarkerMiddle>> \o theirs
                  \o <<MarkerTarget, threeWay.targetBranch>>
      IN IF /\ ~Same(threeWay.base, threeWay.active, p)
            /\ ~Same(threeWay.base, threeWay.target, p)
            /\ ~Same(threeWay.active, threeWay.target, p)
         THEN /\ p \in DOMAIN threeWay.tree
              /\ threeWay.tree[p] = blob
              /\ p \in Keys(staged)
              /\ Lookup(staged, p) = CreateFile(blob)
         ELSE /\ p \in DOMAIN threeWay.tree => ~HasMarkers(threeWay.tree[p])
              /\ p \in Keys(staged) =>
                   \/ Lookup(staged, p).type # "createFile"
                   \/ ~HasMarkers(Lookup(staged, p).content)

\* A merge has written a conflict blob for a file that base holds, ours
\* changed and theirs changed differently, next to a path without conflict.
C15_Witness ==
  /\ threeWay.phase = "merged"
  /\ \E p \in Paths, q \in Paths :
       /\ p \in DOMAIN threeWay.base
       /\ p \in DOMAIN threeWay.active
       /\ p \in DOMAIN threeWay.target
       /\ threeWay.base[p] # threeWay.active[p]
       /\ threeWay.base[p] # threeWay.target[p]
       /\ threeWay.active[p] # threeWay.target[p]
       /\ threeWay.active[p] # <<>> /\ threeWay.target[p] # <<>>
       /\ HasMarkers(threeWay.tree[p])
       /\ q # p
       /\ q \in Keys(getStagedChanges(threeWay.stage))
       /\ q \in DOMAIN threeWay.tree
       /\ ~HasMarkers(threeWay.tree[q])

\* C16: the stage written by merge(t) has an entry for a path exactly when
\* ours differs from theirs and base differs from theirs; paths with ours ==
\* theirs, and paths changed only on the active side (base == theirs, base
\* # ours), get no stage entry and their working-tree files are not touched.
C16_MergeStageEntries ==
  \A t \in DOMAIN local, p \in Paths :
    LET outcome == merge(t)
        staged == getStagedChanges(outcome.stage)
        base == mergeBase(t)
        ours == getStateByHash(local, head.branch, head.parent)
        theirs == getStateByHash(local, t, lastCommit(local[t].commits))
    IN /\ p \in Keys(staged) <=> (~Same(ours, theirs, p) /\ ~Same(base, theirs, p))
       /\ (Same(ours, theirs, p) \/ (Same(base, theirs, p) /\ ~Same(base, ours, p)))
            => /\ p \notin Keys(staged)
               /\ Same(outcome.tree, tree, p)

\* A merge was just run in which a file changed on the active side only:
\* the stage holds no entry for it although the tree differs from theirs.
C16_Witness ==
  /\ last.op = "merge"
  /\ last.result = "ok"
  /\ last.arg \in DOMAIN local
  /\ \E p \in Paths :
       LET base == mergeBase(last.arg)
           ours == getStateByHash(local, head.branch, head.parent)
           theirs == getStateByHash(local, last.arg,
                                    lastCommit(local[last.arg].commits))
       IN /\ Same(base, theirs, p)
          /\ ~Same(base, ours, p)
          /\ p \notin Keys(getStagedChanges(stage))
          /\ stage.exists

\* C17: merge(t) is never auto-committed: it leaves head.active (branch and
\* parent), every branch manifest and every commit object unchanged; only
\* the stage and the working tree change.
C17_MergeNotCommitted ==
  \A t \in BranchNames :
    /\ merge(t).head = head
    /\ merge(t).local = local
    /\ merge(t).clock = clock

\* A merge just staged changes and wrote the tree while head stayed at a
\* commit that is not the target's last.
C17_Witness ==
  /\ last.op = "merge"
  /\ last.result = "ok"
  /\ getStagedChanges(stage) # <<>>
  /\ head.parent # NoHash
  /\ head.parent # lastCommit(local[last.arg].commits)
  /\ \E p \in Keys(getStagedChanges(stage)) :
       /\ Lookup(getStagedChanges(stage), p).type = "createFile"
       /\ p \in DOMAIN tree
       /\ tree[p] = Lookup(getStagedChanges(stage), p).content

\* C18: the base state used by merge(t) is the state reconstructed on the
\* active branch at the most recent hash of the active manifest that also
\* appears in t's manifest; when the manifests share no hash the ancestor is
\* null and the base is the state reconstructed at null, the root snapshot,
\* so a root file changed on only one side is not reported as a conflict.
C18_MergeBaseIsAncestorState ==
  \A t \in DOMAIN local :
    LET ancestor == commonAncestor(local[head.branch].commits, local[t].commits,
                                   Len(local[head.branch].commits))
        ours == getStateByHash(local, head.branch, head.parent)
        theirs == getStateByHash(local, t, lastCommit(local[t].commits))
        staged == getStagedChanges(merge(t).stage)
    IN /\ mergeBase(t) = getStateByHash(local, head.branch, ancestor)
       /\ \A p \in DOMAIN root :
            (ancestor = NoHash /\ (Same(root, ours, p) \/ Same(root, theirs, p))) =>
              ~(/\ p \in Keys(staged)
                /\ Lookup(staged, p).type = "createFile"
                /\ HasMarkers(Lookup(staged, p).content))

\* C19: immediately after branch({name: n}) creates n, n's local manifest
\* equals the active branch's manifest at that moment, and for every hash h
\* in it getStateByHash(n, h) equals getStateByHash(active, h).
C19_BranchCopiesHistory ==
  \A n \in BranchNames :
    LET outcome == branch(n)
    IN outcome.result = "ok" =>
         /\ n \in DOMAIN outcome.local
         /\ outcome.local[n].commits = local[head.branch].commits
         /\ \A h \in Elements(outcome.local[n].commits) :
              getStateByHash(outcome.local, n, h)
                = getStateByHash(outcome.local, head.branch, h)

\* A branch was just created from an active branch whose last commit
\* changed the state, and the new branch replays to the same state.
C19_Witness ==
  /\ last.op = "branch"
  /\ last.result = "ok"
  /\ last.arg \in DOMAIN local
  /\ last.arg # head.branch
  /\ local[last.arg].commits # <<>>
  /\ local[last.arg].commits = local[head.branch].commits
  /\ getStateByHash(local, last.arg, lastCommit(local[last.arg].commits)) # root
  /\ getStateByHash(local, last.arg, lastCommit(local[last.arg].commits))
       = ActiveState

\* What a call on the active branch leaves of another branch b: its
\* manifest, the state at each of its hashes, and what a checkout of b
\* afterwards puts into the working tree.
OtherBranchKept(outcome, b) ==
  LET latest == getStateByHash(local, b, lastCommit(local[b].commits))
  IN /\ b \in DOMAIN outcome.local
     /\ outcome.local[b].commits = local[b].commits
     /\ \A h \in Elements(local[b].commits) :
          getStateByHash(outcome.local, b, h) = getStateByHash(local, b, h)
     /\ \A force \in BOOLEAN :
          LET after == checkoutFrom(outcome.tree, outcome.head, outcome.local,
                                    outcome.stage, b, force)
          IN after.result = "ok" =>
               /\ after.head = [branch |-> b,
                                parent |-> lastCommit(local[b].commits)]
               /\ \A p \in DOMAIN latest :
                    p \in DOMAIN after.tree /\ after.tree[p] = latest[p]

\* C20: branches are isolated: a commit or reset on the active branch
\* changes neither the manifest of any other branch b' nor
\* getStateByHash(b', h) for any h in it, so checking out b' afterwards
\* restores b''s own latest state.
C20_BranchesIsolated ==
  \A b \in DOMAIN local \ {head.branch} :
    /\ \A message \in Messages : OtherBranchKept(commit(message), b)
    /\ \A hash \in 0..(clock + 1) : OtherBranchKept(reset(hash), b)

\* A commit was just made on a branch while another branch holds commits of
\* its own and replays to a different state.
C20_Witness ==
  /\ last.op = "commit"
  /\ last.result = "ok"
  /\ \E b \in DOMAIN local \ {head.branch} :
       /\ local[b].commits # <<>>
       /\ local[b].commits # local[head.branch].commits
       /\ getStateByHash(local, b, lastCommit(local[b].commits)) # ActiveState

\* C21: on a clean working tree, checkout(n) of a branch n that does not
\* exist succeeds and creates n from the active branch: n then exists with
\* the manifest of the former active branch, head.active.branch is n and the
\* working tree is as it was.
C21_CheckoutCreatesBranch ==
  \A n \in BranchNames \ DOMAIN local, force \in BOOLEAN :
    LET outcome == checkout(n, force)
    IN ~TreeIsDirty =>
         /\ outcome.result = "ok"
         /\ n \in DOMAIN outcome.local
         /\ outcome.local[n].commits = local[head.branch].commits
         /\ outcome.head.branch = n
         /\ outcome.tree = tree

\* A checkout just created the branch it switched to, copying a manifest
\* that holds a commit, and the working tree is the one of that commit.
C21_Witness ==
  /\ last.op = "checkout"
  /\ last.result = "ok"
  /\ last.arg = "dev"
  /\ head.branch = "dev"
  /\ steps = 3
  /\ Len(local["dev"].commits) = 1
  /\ local["dev"].commits = local["main"].commits
  /\ tree = ActiveState

\* C22: head.active.branch always names a local branch that has a manifest.
\* Deleting a branch fails and changes nothing when the target is the active
\* branch or does not exist; otherwise it removes the local and the remote
\* history directory of the target and touches nothing else.
C22_ActiveBranchExists ==
  /\ head.branch \in DOMAIN local
  /\ Len(local[head.branch].commits) >= 0
  /\ \A name \in BranchNames :
       LET outcome == branchDelete(name)
       IN IF name \notin DOMAIN local \/ name = head.branch
          THEN /\ outcome.result # "ok"
               /\ outcome = Untouched(outcome.result)
          ELSE /\ outcome.result = "ok"
               /\ DOMAIN outcome.local = DOMAIN local \ {name}
               /\ \A b \in DOMAIN outcome.local : outcome.local[b] = local[b]
               /\ DOMAIN outcome.remote = DOMAIN remote \ {name}
               /\ \A b \in DOMAIN outcome.remote : outcome.remote[b] = remote[b]
               /\ outcome.tree = tree /\ outcome.head = head
               /\ outcome.stage = stage /\ outcome.cache = cache

\* A branch that held a commit was just deleted, with its remote tracking
\* directory, while the active branch kept its own history.
C22_Witness ==
  /\ last.op = "delete"
  /\ last.result = "ok"
  /\ last.arg \notin DOMAIN local
  /\ last.arg \notin DOMAIN remote
  /\ head.branch \in DOMAIN local
  /\ head.branch \in DOMAIN remote
  /\ Len(local[head.branch].commits) = 1

\* C23: after a stash() that saved changes the working tree is the active
\* state (every file of it present with its committed content, no other file
\* left, a stashed untracked file included) and the stage is absent.
C23_StashReverts ==
  LET outcome == stash
  IN outcome.result = "ok" =>
       /\ outcome.tree = ActiveState
       /\ ~outcome.stage.exists

\* The repository after stash() immediately followed by stash({ pop: true }).
StashThenPop ==
  LET saved == stash
  IN stashPopFrom(saved.tree, saved.head, saved.local, saved.stage,
                  saved.clock, saved.cache)

\* C24: when stash() saves changes, stash() followed at once by
\* stash({ pop: true }) leaves the working tree exactly as it was before the
\* stash and removes the stash directory it made.
C24_StashPopRoundTrip ==
  stash.result = "ok" =>
    /\ StashThenPop.result = "ok"
    /\ StashThenPop.tree = tree
    /\ StashThenPop.cache = cache

\* The stash directory made last.
NewestStash(cached) == CHOOSE n \in DOMAIN cached : \A m \in DOMAIN cached : m <= n

\* C25: the stash is a stack.  A stash() that saves changes adds exactly one
\* entry and keeps the others; the list names every entry once, the newest
\* as stash@{0} and each older one by the number of entries newer than it;
\* pop applies the newest entry to the working tree and removes it alone; pop
\* with no entry fails and changes nothing.
C25_StashIsStack ==
  /\ LET outcome == stash
     IN outcome.result = "ok" =>
          /\ Cardinality(DOMAIN outcome.cache) = Cardinality(DOMAIN cache) + 1
          /\ \A n \in DOMAIN cache :
               n \in DOMAIN outcome.cache /\ outcome.cache[n] = cache[n]
          /\ \E i \in DOMAIN stashListOf(outcome.cache) :
               /\ stashListOf(outcome.cache)[i].id = 0
               /\ stashListOf(outcome.cache)[i].directoryName \notin DOMAIN cache
  /\ Len(stashList) = Cardinality(DOMAIN cache)
  /\ \A n \in DOMAIN cache :
       \E i \in DOMAIN stashList :
         /\ stashList[i].directoryName = n
         /\ stashList[i].id = Cardinality({m \in DOMAIN cache : m > n})
  /\ IF DOMAIN cache = {}
     THEN stashPop.result # "ok" /\ stashPop = Untouched(stashPop.result)
     ELSE /\ stashPop.result = "ok"
          /\ stashPop.tree =
               ApplyChanges(tree, getPaginatedChanges(cache[NewestStash(cache)]))
          /\ DOMAIN stashPop.cache = DOMAIN cache \ {NewestStash(cache)}
          /\ \A n \in DOMAIN stashPop.cache : stashPop.cache[n] = cache[n]
          /\ stashPop.head = head /\ stashPop.local = local
          /\ stashPop.stage = stage

\* A pop just restored the newer of two stash entries that differ, and the
\* older one is still listed, now as stash@{0}.
C25_Witness ==
  /\ last.op = "pop"
  /\ last.result = "ok"
  /\ Cardinality(DOMAIN cache) = 1
  /\ Len(stashList) = 1
  /\ stashList[1].id = 0
  /\ getPaginatedChanges(cache[stashList[1].directoryName]) # <<>>
  /\ tree # ActiveState

\* The delta add computes for a working file against the active state.
AddDelta(p) ==
  IF p \notin DOMAIN ActiveState THEN CreateFile(tree[p])
  ELSE OpList(DeltaOps(ActiveState[p], tree[p]))

\* Every entry of the stage is one an add writes: no deletion staged by rm.
StagedByAdd ==
  \A p \in Keys(getStagedChanges(stage)) :
    Lookup(getStagedChanges(stage), p).type # "deleteFile"

\* C26: the stage is the union by last writer of the per-file deltas: after
\* an add, every path the add processed has in the stage exactly the delta
\* this add computed for it, and no entry when the add found the file
\* identical to the active state; every other path keeps its entry.
C26_AddLastWriter ==
  \A targetPath \in Paths \cup {"."} :
    LET outcome == add(targetPath)
        before == getStagedChanges(stage)
        staged == getStagedChanges(outcome.stage)
        files == filesToProcess(targetPath, ActiveState)
    IN (outcome.result = "ok" /\ StagedByAdd) =>
         /\ \A p \in Elements(files) :
              IF p \in DOMAIN ActiveState /\ tree[p] = ActiveState[p]
              THEN p \notin Keys(staged)
              ELSE p \in Keys(staged) /\ Lookup(staged, p) = AddDelta(p)
         /\ \A p \in Paths \ Elements(files) :
              /\ p \in Keys(staged) <=> p \in Keys(before)
              /\ p \in Keys(before) => Lookup(staged, p) = Lookup(before, p)

\* C27: rm(p) sets the stage entry of p to deleteFile, keeps every other
\* stage entry, and removes p (and only p) from the working tree; after a
\* commit that follows, p is absent from the active state.
C27_RmStagesDeletion ==
  \A p \in Paths :
    LET outcome == rm(p)
        before == getStagedChanges(stage)
        staged == getStagedChanges(outcome.stage)
        committed == commitFrom(outcome.tree, outcome.head, outcome.local,
                                outcome.stage, outcome.clock, "m")
    IN /\ outcome.result = "ok"
       /\ p \in Keys(staged) /\ Lookup(staged, p) = DeleteFile
       /\ \A q \in Paths \ {p} :
            /\ q \in Keys(staged) <=> q \in Keys(before)
            /\ q \in Keys(before) => Lookup(staged, q) = Lookup(before, q)
       /\ outcome.tree = Remove(tree, p)
       /\ committed.result = "ok"
       /\ p \notin DOMAIN getStateByHash(committed.local, committed.head.branch,
                                         committed.head.parent)

\* A file of the root snapshot was removed with rm and the removal was
\* committed: the file is in neither the working tree nor the active state,
\* and the stage is gone.
C27_Witness ==
  /\ last.op = "commit"
  /\ last.result = "ok"
  /\ steps = 2
  /\ ~stage.exists
  /\ \E p \in DOMAIN root : p \notin DOMAIN tree /\ p \notin DOMAIN ActiveState

\* C28: status() classifies the working files as specified.  An unstaged
\* file of the active state whose content equals the active state, an empty
\* file included, is in none of modified, untracked and ignored; untracked
\* is exactly the files that are not ignored, not in the active state and
\* not staged; modified is exactly the unstaged files of the active state
\* whose content differs.
C28_StatusClassifies ==
  LET staged == Keys(getStagedChanges(stage))
  IN /\ \A file \in DOMAIN tree :
          (file \in DOMAIN ActiveState /\ file \notin staged
           /\ tree[file] = ActiveState[file]) =>
            file \notin Elements(status.modified) \cup Elements(status.untracked)
                        \cup Elements(status.ignored)
     /\ Elements(status.untracked) =
          {file \in DOMAIN tree : /\ ~shouldIgnore(file, tree)
                                  /\ file \notin DOMAIN ActiveState
                                  /\ file \notin staged}
     /\ Elements(status.modified) =
          {file \in DOMAIN tree : /\ file \notin staged
                                  /\ file \in DOMAIN ActiveState
                                  /\ tree[file] # ActiveState[file]}

\* The content of a file in the active state, the empty string if absent.
ActiveContent(file) ==
  IF file \in DOMAIN ActiveState THEN ActiveState[file] ELSE <<>>

\* add('.') followed by commit('m').
AddAllThenCommit ==
  LET added == add(".")
  IN commitFrom(added.tree, added.head, added.local, added.stage,
                added.clock, "m")

\* C29: diff().fileDiffs has an entry for a working file exactly when its
\* content differs from the active state (the root snapshot while
\* head.active.parent is null); so diff reports nothing when status reports
\* neither modified nor untracked files, and after add and commit of all
\* changes diff returns no fileDiffs and no staged path.
C29_DiffMatchesActiveState ==
  /\ \A file \in DOMAIN tree :
       (\E i \in DOMAIN diff.fileDiffs : diff.fileDiffs[i].file = file)
         <=> tree[file] # ActiveContent(file)
  /\ (status.modified = <<>> /\ status.untracked = <<>>) => diff.fileDiffs = <<>>
  /\ LET done == AddAllThenCommit
     IN (done.result = "ok"
         /\ done.tree = getStateByHash(done.local, done.head.branch,
                                       done.head.parent)) =>
          diffOf(done.tree, done.head, done.local, done.stage)
            = [fileDiffs |-> <<>>, staged |-> <<>>]

\* The repository after checkout(b, {force: true}) called twice in a row.
CheckoutTwice(b) ==
  LET once == checkout(b, TRUE)
  IN checkoutFrom(once.tree, once.head, once.local, once.stage, b, TRUE)

\* C30: on a clean working tree checkout(b, {force: true}) is idempotent:
\* head, the branch histories, the stage and the working tree after two
\* consecutive calls are those after one call.
C30_ForcedCheckoutIdempotent ==
  \A b \in BranchNames :
    ~TreeIsDirty =>
      /\ checkout(b, TRUE).result = "ok"
      /\ CheckoutTwice(b).result = "ok"
      /\ CheckoutTwice(b).head = checkout(b, TRUE).head
      /\ CheckoutTwice(b).local = checkout(b, TRUE).local
      /\ CheckoutTwice(b).stage = checkout(b, TRUE).stage
      /\ CheckoutTwice(b).tree = checkout(b, TRUE).tree

\* A forced checkout just switched to a branch whose state differs from the
\* one of another branch, the working tree is clean, and a forced checkout
\* of that other branch would rewrite the working tree.
C30_Witness ==
  /\ last.op = "checkout"
  /\ last.force
  /\ last.result = "ok"
  /\ head.branch = last.arg
  /\ ~TreeIsDirty
  /\ \E b \in DOMAIN local \ {head.branch} :
       /\ checkout(b, TRUE).tree # tree
       /\ checkout(b, TRUE).tree # <<>>
       /\ CheckoutTwice(b).tree = checkout(b, TRUE).tree

\* The outcomes of every call that can be made in the current state.
AllOutcomes ==
  {init, stash, stashPop}
  \cup {add(targetPath) : targetPath \in Paths \cup {"."}}
  \cup {rm(filePath) : filePath \in Paths}
  \cup {commit(message) : message \in Messages}
  \cup {branch(name) : name \in BranchNames}
  \cup {branchDelete(name) : name \in BranchNames}
  \cup {checkout(name, force) : name \in BranchNames, force \in BOOLEAN}
  \cup {reset(hash) : hash \in 0..(clock + 1)}
  \cup {merge(name) : name \in BranchNames}

\* C31: the root snapshot is written by init and never again: no add, rm,
\* commit, branch, checkout, reset, merge or stash call changes it, and init
\* in a directory that already has its metadata directory changes nothing.
C31_RootSnapshotImmutable ==
  /\ init = Untouched(init.result)
  /\ \A outcome \in AllOutcomes : outcome.root = root

\* A commit was just made on top of earlier calls; the active state and the
\* working tree both differ from the root snapshot by now.
C31_Witness ==
  /\ last.op = "commit"
  /\ last.result = "ok"
  /\ steps >= 4
  /\ ActiveState # root
  /\ rootSnapshot(tree) # root

\* C32: commits are immutable and the replay stops at its target: a hash of
\* a branch manifest replays to the same state after any call, as long as the
\* hash stays in that manifest; the null hash replays to the root snapshot.
C32_CommitsImmutable ==
  /\ \A b \in DOMAIN local : getStateByHash(local, b, NoHash) = root
  /\ \A outcome \in AllOutcomes :
       \A b \in DOMAIN local \cap DOMAIN outcome.local :
         \A h \in Elements(local[b].commits) \cap Elements(outcome.local[b].commits) :
           getStateByHashFrom(outcome.root, outcome.local, b, h)
             = getStateByHash(local, b, h)

\* A branch holds two commits that replay to different states, the first of
\* them differs from the root snapshot, and the second was just made.
C32_Witness ==
  /\ last.op = "commit"
  /\ last.result = "ok"
  /\ Len(local[head.branch].commits) = 2
  /\ local[head.branch].commits[2] = head.parent
  /\ getStateByHash(local, head.branch, local[head.branch].commits[1])
       # getStateByHash(local, head.branch, head.parent)
  /\ getStateByHash(local, head.branch, local[head.branch].commits[1]) # root

\* Every hash of every manifest has its master and every part it names.
ObjectsOnDisk ==
  \A b \in DOMAIN local :
    \A h \in Elements(local[b].commits) :
      /\ h \in DOMAIN local[b].masters
      /\ Elements(local[b].masters[h].parts) \subseteq DOMAIN local[b].parts

\* C33: between any two writes of commit, every hash of the branch manifest
\* has its master and its parts on disk and head.active.parent is null or
\* listed in the manifest; and a stage save has written every part before
\* the manifest that names it.
C33_WritesOrdered ==
  /\ pc.at \in {"parts", "manifest", "head", "stage"} =>
       ObjectsOnDisk /\ HeadInManifest(head, local)
  /\ pc.at \in {"rm", "add", "unlink"} => Len(stage.parts) <= pc.written

(***************************************************************************)
(* The paginated store                                                     *)
(***************************************************************************)

PartKeys(part) == [i \in 1..Len(part) |-> part[i].path]

RECURSIVE KeysInOrder(_)
KeysInOrder(parts) ==
  IF parts = <<>> THEN <<>> ELSE PartKeys(Head(parts)) \o KeysInOrder(Tail(parts))

\* C34: whichever of the four writers wrote the directory, loading it gives
\* back the mapping that was saved, entry for entry and in its insertion
\* order; no path is in two parts, and the paths of the parts, read in
\* manifest order, are the paths of the mapping in insertion order.
C34_PaginatedRoundTrip ==
  /\ paged.at = "loaded" => paged.loaded = paged.changes
  /\ paged.at \in {"saved", "loaded"} =>
       LET parts == paged.directory.parts
       IN /\ \A i, j \in 1..Len(parts) :
               i # j => Keys(parts[i]) \cap Keys(parts[j]) = {}
          /\ KeysInOrder(parts) = PartKeys(paged.changes)

C34_Witness ==
  /\ paged.at = "loaded"
  /\ paged.writer = "merge"
  /\ Len(paged.changes) = 3
  /\ Len(paged.directory.parts) = 2
  /\ Len(paged.directory.parts[1]) = 2
  /\ paged.loaded = paged.changes

\* Length of JSON.stringify(value, null, 2) for a change entry that is the
\* value of a key of "changes": its fields are indented by six, the
\* operations of a list by six and their fields by eight.
PrettyOpSize(operation) ==
  OpSize(operation) + 7 + 10 * Cardinality(DOMAIN operation)

RECURSIVE PrettyOpsSize(_)
PrettyOpsSize(operations) ==
  IF operations = <<>> THEN 0
  ELSE PrettyOpSize(Head(operations)) + PrettyOpsSize(Tail(operations))

PrettySize(change) ==
  CASE change.type = "createFile" -> JSONSize(change) + 21
    [] change.type = "deleteFile" -> JSONSize(change) + 13
    [] change.type = "ops" ->
         IF change.ops = <<>> THEN 2
         ELSE 2 + PrettyOpsSize(change.ops) + 5 + 7 * Len(change.ops)
              + (Len(change.ops) - 1)

PathLen(p) == IF p = ".artignore" THEN 10 ELSE 5

RECURSIVE PrettyEntriesSize(_)
PrettyEntriesSize(part) ==
  IF part = <<>> THEN 0
  ELSE 4 + PathLen(Head(part).path) + 2 + 2 + PrettySize(Head(part).change)
       + (IF Tail(part) = <<>> THEN 0 ELSE 2)
       + PrettyEntriesSize(Tail(part))

\* Length of the part file: JSON.stringify({ changes }, null, 2).
PartFileSize(part) ==
  IF part = <<>> THEN 19 ELSE 17 + PrettyEntriesSize(part) + 6

\* C35: no part file is longer than the limit, unless it holds one change
\* and that change alone is above the limit.
C35_PartSizeBounded ==
  paged.at \in {"saved", "loaded"} =>
    \A i \in 1..Len(paged.directory.parts) :
      LET part == paged.directory.parts[i]
      IN \/ PartFileSize(part) <= paged.limit
         \/ Len(part) = 1 /\ JSONSize(part[1].change) > paged.limit

(***************************************************************************)
(* The head and the parent chain                                           *)
(***************************************************************************)

HeadIsTip(hd, history) ==
  /\ hd.branch \in DOMAIN history
  /\ hd.parent = lastCommit(history[hd.branch].commits)

\* C36: in every reachable state, and in the state every call leaves behind
\* whether it returned or threw, head.active.parent is the last hash of the
\* active branch's manifest, or null when the manifest is empty.
C36_HeadIsTip ==
  /\ HeadIsTip(head, local)
  /\ \A outcome \in AllOutcomes : HeadIsTip(outcome.head, outcome.local)

\* C37: on every branch, the master of the commit at each position of the
\* manifest names as its parent the hash one position earlier, and null at
\* the first position.
C37_ParentChain ==
  \A b \in DOMAIN local :
    \A i \in 1..Len(local[b].commits) :
      LET hash == local[b].commits[i]
      IN hash \in DOMAIN local[b].masters =>
           local[b].masters[hash].parent =
             (IF i = 1 THEN NoHash ELSE local[b].commits[i - 1])

(***************************************************************************)
(* checkout and merge on a clean tree                                      *)
(***************************************************************************)

\* C38: when a non-forced checkout(b) succeeds, the files of the working
\* tree and their contents are exactly the state at b's latest commit.
C38_CheckoutMaterialisesTarget ==
  \A b \in BranchNames :
    LET outcome == checkout(b, FALSE)
    IN outcome.result = "ok" =>
         outcome.tree = getStateByHash(outcome.local, b,
                                       lastCommit(outcome.local[b].commits))

\* An entry the merge loop can produce for p: the deletion of a file the
\* target does not hold, or the creation of p with the target's content or
\* with the conflict text.
MergeEntry(change, targetState, p) ==
  \/ change.type = "deleteFile" /\ p \notin DOMAIN targetState
  \/ /\ change.type = "createFile"
     /\ \/ p \in DOMAIN targetState /\ change.content = targetState[p]
        \/ HasMarkers(change.content)

\* C40: whatever the stage held before, after merge(t) it exists and holds
\* only entries of the merge: each is for a file on which the active and the
\* target state differ and is the entry the merge produces for it, so an
\* entry staged before for any other file is gone.
C40_MergeReplacesStage ==
  \A t \in BranchNames :
    LET outcome == merge(t)
        after == getStagedChanges(outcome.stage)
        activeState == getStateByHash(local, head.branch, head.parent)
        targetState == getStateByHash(local, t, lastCommit(local[t].commits))
    IN /\ outcome.stage.exists
       /\ t \notin DOMAIN local => after = <<>>
       /\ t \in DOMAIN local =>
            \A p \in Keys(after) :
              /\ ~Same(activeState, targetState, p)
              /\ MergeEntry(Lookup(after, p), targetState, p)

C40_Witness ==
  \E t \in BranchNames \cap DOMAIN local :
    LET before == getStagedChanges(stage)
        after == getStagedChanges(merge(t).stage)
    IN /\ last.op \in {"add", "rm"}
       /\ before # <<>>
       /\ after # <<>>
       /\ \E p \in Keys(before) \cap Keys(after) :
            Lookup(before, p) # Lookup(after, p)

\* merge(t), then commit, then a non-forced checkout of the active branch.
MergeThenCommit(t) ==
  LET merged == merge(t)
  IN commitFrom(merged.tree, merged.head, merged.local, merged.stage,
                merged.clock, "m")

\* C39: from a working tree equal to the active state, merge(t) followed by
\* commit leaves the working tree equal to the new active state, and the
\* non-forced checkout of the active branch that follows does not fail.
C39_MergeCommitLeavesCleanTree ==
  \A t \in BranchNames \cap DOMAIN local :
    LET committed == MergeThenCommit(t)
        again == checkoutFrom(committed.tree, committed.head, committed.local,
                              committed.stage, committed.head.branch, FALSE)
    IN (/\ tree = getStateByHash(local, head.branch, head.parent)
        /\ merge(t).result = "ok"
        /\ committed.result = "ok") =>
         /\ committed.tree = getStateByHash(committed.local, committed.head.branch,
                                            committed.head.parent)
         /\ again.result = "ok"

C39_Witness ==
  \E t \in BranchNames \cap DOMAIN local :
    LET merged == merge(t)
        committed == MergeThenCommit(t)
    IN /\ tree = getStateByHash(local, head.branch, head.parent)
       /\ head.parent # NoHash
       /\ mergeBase(t) # EmptyMap
       /\ merged.result = "ok"
       /\ merged.tree # tree
       /\ \A p \in DOMAIN merged.tree : ~HasMarkers(merged.tree[p])
       /\ committed.result = "ok"
       /\ committed.tree = getStateByHash(committed.local, committed.head.branch,
                                          committed.head.parent)
       /\ checkoutFrom(committed.tree, committed.head, committed.local,
                       committed.stage, committed.head.branch, FALSE).result = "ok"

====
